---- MODULE Spec2Model ----
(***************************************************************************)
(* Delivery packager: the pack executor (packager/core/pack.py) and the    *)
(* planner (packager/core/planner.py) as state machines.                   *)
(*                                                                         *)
(* Spec      execute_pack, one action per step of the per-item loop, with  *)
(*           the file system, the cancel flag and I/O faults as the        *)
(*           environment.                                                  *)
(* SpecAny   execute_pack with hash_algo drawn from more than the two      *)
(*           values hash_file implements.                                  *)
(* SpecPlan  validate_pack_inputs and build_pack_plan applied to bounded   *)
(*           identities and file lists, on both path flavours.             *)
(* SpecCat   _category_for_file applied to bounded (relpath, ext) pairs.   *)
(* SpecValidate  validate_delivery applied to bounded scans, root listings *)
(*           and profiles with every setting of the four rule toggles.     *)
(* SpecScan  scan_folder, one action per directory that os.walk yields,    *)
(*           over bounded directory trees.                                 *)
(* SpecProfiles  ensure_default_profiles_on_disk, save_profile and          *)
(*           load_profile on the profile directory, with the user's edits  *)
(*           and removals.                                                 *)
(* SpecUI    the main window (packager/ui/main_window.py): Scan, Preview,  *)
(*           Package and Cancel clicks, the pack worker thread running     *)
(*           execute_pack, and its finished signal.                        *)
(* SpecUILive  SpecUI with weak fairness of the worker thread's steps and  *)
(*           of the delivery of the finished signal.                       *)
(***************************************************************************)
EXTENDS Integers, Sequences, FiniteSets, TLC

\* ------------------------------------------------------------------ bounds
MaxItems == 2
MaxFiles == 3
MaxGroups == 27

\* ------------------------------------------------------- file system model
\* A file is its bytes and its modification time.  Bytes are drawn from a
\* small set with two contents of equal length; modification times are in
\* tenths of a second so that two times can share a whole second.
NoFile == [data |-> "-", mtime |-> 0]

Srcs == {"a", "b"}
Dsts == {"x", "y"}
Paths == Srcs \cup Dsts

FileA == [data |-> "A", mtime |-> 10]
FileB == [data |-> "B", mtime |-> 20]

\* os.stat(p).st_size
st_size(f) == IF f.data = "CC" THEN 2 ELSE IF f.data = "" THEN 0 ELSE 1

\* int(os.stat(p).st_mtime): truncation to whole seconds
int_mtime(f) == f.mtime \div 10

\* Path.exists()
exists(f) == f # NoFile

same_file_SizeOnly(s, d) ==
    IF ~exists(s) \/ ~exists(d) THEN FALSE
    ELSE st_size(s) = st_size(d)

\* pack._same_file: size and whole-second mtime; any stat failure is False
same_file(s, d) ==
    IF ~exists(s) \/ ~exists(d) THEN FALSE
    ELSE st_size(s) = st_size(d) /\ int_mtime(s) = int_mtime(d)

\* hashing.hash_file on the bytes of an existing file: "ValueError" for an
\* unsupported algorithm, else the digest.  The digest is abstract and
\* collision free on the bounded contents; it differs between algorithms.
Algos == {"sha1", "md5"}

hash_file(f, algo) ==
    IF algo \notin {"sha1", "md5"} THEN "ValueError"
    ELSE algo \o ":" \o f.data

\* The time a write that does not preserve times leaves on a file.
Now == 30

\* ------------------------------------------------------------- plan items
relpath_of(src) == "rel/" \o src

PlanItem(s, d) == [src |-> s, relpath |-> relpath_of(s), dst |-> d]

Items == {PlanItem(s, d) : s \in Srcs, d \in Dsts}

RECURSIVE SeqsUpTo(_, _)
SeqsUpTo(S, n) ==
    IF n = 0 THEN {<<>>}
    ELSE LET shorter == SeqsUpTo(S, n - 1)
         IN  shorter \cup {Append(q, e) : q \in {r \in shorter : Len(r) = n - 1}, e \in S}

\* models.ValidationResult.  Of the message text the model keeps the part
\* that varies: in execute_pack the item it is about (its loop index).
ValidationResult(level, code, message, rel) ==
    [level |-> level, code |-> code, message |-> message, relpath |-> rel]

VARIABLES
    plan, overwrite, verify_hash, hash_algo,   \* arguments of execute_pack
    fs, dirs, cancelled,                       \* environment
    idx, pc, copied, skipped, failed,          \* locals of execute_pack
    issues, hashes_by_src, src_hash,
    progress,                                  \* calls made to progress_cb
    st, fault,                                 \* per-item state and injected fault
    wrote,                                     \* items that wrote to the file system
    pre,                                       \* counters and files when item idx began
    files, output_root, project, asset, version,   \* arguments of build_pack_plan
    platform, cwd,                             \* os.name and the working directory
    built, validated,                          \* what the two planner calls returned
    cat_rel, cat_ext, cat_out,                 \* _category_for_file: f.relpath, f.ext, result
    v_top, v_files, v_summary, profile,        \* arguments of validate_delivery, and the
    v_results,                                 \* listing of input_root; what it returned
    tree, root_is_dir, ignore_dirs, ignore_hidden,   \* the scan root; arguments of scan_folder
    walk, s_pc,                                \* directories os.walk has yet to yield
    s_files, total_dirs, total_bytes, ext_counts,    \* locals of scan_folder
    scanned,                                   \* the summary scan_folder returned
    disk, pdir,                                \* the files of packager/profiles; is it there
    last_op, before, ops,                      \* the last profile call, the files before it
    saved, loaded,                             \* save_profile's argument, load_profile's outcome
    last_plan, btn,                            \* MainWindow._last_plan; which buttons are enabled
    running, worker_plan,                      \* pack threads not yet wound up; PackWorker.plan
    signals, emitted,                          \* finished signals queued; emitted by this worker
    cancel_at,                                 \* where the worker was when its flag was set
    clicks                                     \* button clicks so far

pack_vars == <<plan, overwrite, verify_hash, hash_algo, fs, dirs, cancelled,
               idx, pc, copied, skipped, failed, issues, hashes_by_src, src_hash,
               progress, st, fault, wrote, pre>>

planner_vars == <<files, output_root, project, asset, version, platform, cwd,
                  built, validated>>

cat_vars == <<cat_rel, cat_ext, cat_out>>

val_vars == <<v_top, v_files, v_summary, profile, v_results>>

scan_vars == <<tree, root_is_dir, ignore_dirs, ignore_hidden, walk, s_pc, s_files,
               total_dirs, total_bytes, ext_counts, scanned>>

prof_vars == <<disk, pdir, last_op, before, ops, saved, loaded>>

\* The state of the other operations of the core.
ui_vars == <<last_plan, btn, running, worker_plan, signals, emitted, cancel_at, clicks>>

other_vars == <<cat_vars, val_vars, scan_vars, prof_vars, ui_vars>>

vars == <<pack_vars, planner_vars, other_vars>>

\* What execute_pack never touches.
outside_pack == <<planner_vars, other_vars>>

args == <<plan, overwrite, verify_hash, hash_algo>>

total == Len(plan)
item == plan[idx]

NoHash == "None"

InitFs ==
    /\ fs \in [Paths -> {NoFile, FileA, FileB,
                         [data |-> "B", mtime |-> 15],
                         [data |-> "CC", mtime |-> 10],
                         [data |-> "A", mtime |-> 20]}]
    /\ fs["a"] \in {NoFile, FileA}
    /\ fs["b"] \in {NoFile, FileB}
    /\ fs["x"] \in {NoFile, [data |-> "B", mtime |-> 15], [data |-> "CC", mtime |-> 10]}
    /\ fs["y"] \in {NoFile, [data |-> "A", mtime |-> 20]}

\* No planner call in progress.
PlannerIdle ==
    /\ files = <<>>
    /\ output_root = "" /\ project = "" /\ asset = "" /\ version = ""
    /\ platform = "posix" /\ cwd = "/"
    /\ built = [done |-> FALSE, plan |-> <<>>, issues |-> <<>>]
    /\ validated = [done |-> FALSE, results |-> <<>>]

NoCategory == "<None>"

\* No categorisation in progress.
CatIdle == cat_rel = "" /\ cat_ext = "" /\ cat_out = NoCategory

\* profiles.ProfileRules with its defaults
ProfileRules(no_spaces, version_token, unsupported, required) ==
    [enforce_no_spaces |-> no_spaces, warn_missing_version_token |-> version_token,
     warn_unsupported_extensions |-> unsupported,
     error_missing_required_folders |-> required]

\* profiles.ProfileConfig
ProfileConfig(name, required_folders, allowed_extensions, rules) ==
    [name |-> name, required_folders |-> required_folders,
     allowed_extensions |-> allowed_extensions, rules |-> rules]

\* No validation in progress.
ValIdle ==
    /\ v_top = [readable |-> TRUE, dirs |-> {}]
    /\ v_files = <<>> /\ v_summary = <<>>
    /\ profile = ProfileConfig("Custom", <<>>, {}, ProfileRules(TRUE, TRUE, TRUE, TRUE))
    /\ v_results = [done |-> FALSE, results |-> <<>>]

\* A directory: its name, its subdirectories and its files, in listing order.
Dir(name, subdirs, fls) == [name |-> name, dirs |-> subdirs, files |-> fls]

\* A file of a directory; size NoStat: full.stat() raises OSError.
File(name, size) == [name |-> name, size |-> size]
NoStat == -1

NoSummary == [root |-> "", total_files |-> 0, total_dirs |-> 0, total_bytes |-> 0,
              extensions |-> <<>>, unsupported |-> <<>>]

\* The locals of scan_folder before the walk.
ScanLocals ==
    /\ s_files = <<>> /\ total_dirs = 0 /\ total_bytes = 0
    /\ ext_counts = [e \in {} |-> 0]
    /\ scanned = NoSummary

\* No scan in progress.
ScanIdle ==
    /\ tree = Dir("", <<>>, <<>>) /\ root_is_dir = TRUE
    /\ ignore_dirs = {} /\ ignore_hidden = TRUE
    /\ walk = <<>> /\ s_pc = "Idle"
    /\ ScanLocals

\* The file names of the profile directory that the model follows.
ProfileFiles == {"Game.json", "VFX.json", "Mobile.json", "Custom.json"}

\* A path that does not exist.
Absent == [exists |-> FALSE, text |-> <<>>]

\* No profile call made, nothing stored.
ProfIdle ==
    /\ disk = [f \in ProfileFiles |-> Absent] /\ pdir = FALSE
    /\ last_op = "none" /\ before = disk /\ ops = 0
    /\ saved = <<>> /\ loaded = <<>>

\* enabled flags of btn_scan, btn_preview, btn_package, btn_export, btn_cancel
Buttons(scan, preview, package, export, cancel) ==
    [scan |-> scan, preview |-> preview, package |-> package, export |-> export,
     cancel |-> cancel]

\* The worker's flag has not been set.
NoCancel == [set |-> FALSE, remain |-> FALSE, boundary |-> 0, started |-> 0]

\* MainWindow.__init__: no plan, no worker, Export and Cancel disabled.
UiIdle ==
    /\ last_plan = <<>> /\ btn = Buttons(TRUE, TRUE, TRUE, FALSE, FALSE)
    /\ running = 0 /\ worker_plan = <<>>
    /\ signals = <<>> /\ emitted = 0
    /\ cancel_at = NoCancel /\ clicks = 0

OthersIdle == CatIdle /\ ValIdle /\ ScanIdle /\ ProfIdle /\ UiIdle

\* execute_pack is entered with a plan, its options and some file system.
\* hash_algo is read only under verify_hash and keeps its default without.
PackStart(algos) ==
    /\ plan \in SeqsUpTo(Items, MaxItems)
    /\ overwrite \in BOOLEAN
    /\ verify_hash \in BOOLEAN
    /\ hash_algo \in (IF verify_hash THEN algos ELSE {"sha1"})
    /\ InitFs
    /\ dirs = {d \in Dsts : exists(fs[d])}
    /\ cancelled = FALSE
    /\ idx = 1
    /\ pc = "Pending"
    /\ copied = 0 /\ skipped = 0 /\ failed = 0
    /\ issues = <<>>
    /\ hashes_by_src = [s \in Srcs |-> NoHash]
    /\ src_hash = NoHash
    /\ progress = <<>>
    /\ st = [i \in 1..Len(plan) |-> "Pending"]
    /\ fault = [i \in 1..Len(plan) |-> "none"]
    /\ wrote = {}
    /\ pre = [copied |-> 0, skipped |-> 0, failed |-> 0, fs |-> fs]

\* With one of the two algorithms hash_file implements.
PackInit == PackStart(Algos)

\* Values of hash_algo: the two of Algo, and two others that a caller can pass.
Selectors == Algos \cup {"sha256", "SHA1"}

\* With any value of hash_algo.
PackInitAny == PackStart(Selectors)

\* The states an abandoned item ends in, and all the states an item can end in.
FailStates == {"Missing", "HashFailed", "DirError", "CopyFailed", "VerifyFailed"}
Terminal == FailStates \cup {"Skipped", "Copied", "Verified"}

NextItem_FailFast(s) ==
    /\ st' = [st EXCEPT ![idx] = s]
    /\ idx' = IF s \in FailStates THEN total + 1 ELSE idx + 1
    /\ pc' = "Pending"
    /\ src_hash' = NoHash

\* `continue` / falling off the loop body: item idx ends in state s.
NextItem(s) ==
    /\ st' = [st EXCEPT ![idx] = s]
    /\ idx' = idx + 1
    /\ pc' = "Pending"
    /\ src_hash' = NoHash

Fail_NotCounted(code) ==
    /\ failed' = failed
    /\ issues' = Append(issues, ValidationResult("ERROR", code, idx, item.relpath))

\* failed += 1; issues.append(ValidationResult("ERROR", code, ...))
Fail(code) ==
    /\ failed' = failed + 1
    /\ issues' = Append(issues, ValidationResult("ERROR", code, idx, item.relpath))

\* The user (another thread) asks for cancellation.
Cancel ==
    /\ pc # "Done"
    /\ ~cancelled
    /\ cancelled' = TRUE
    /\ UNCHANGED <<args, outside_pack, fs, dirs, idx, pc, copied, skipped, failed, issues,
                   hashes_by_src, src_hash, progress, st, fault>>
    /\ UNCHANGED <<wrote, pre>>

\* Loop exhausted: build the summary and return.
Return ==
    /\ pc = "Pending"
    /\ idx > total
    /\ pc' = "Done"
    /\ UNCHANGED <<args, outside_pack, fs, dirs, cancelled, idx, copied, skipped, failed, issues,
                   hashes_by_src, src_hash, progress, st, fault>>
    /\ UNCHANGED <<wrote, pre>>

ProgressCall_ZeroBased == <<idx - 1, total, item>>

\* progress_cb(idx, total, item)
ProgressCall == <<idx, total, item>>

IsCancelled_Never == FALSE

\* `is_cancelled and is_cancelled()`: the flag the caller's predicate reads
IsCancelled == cancelled

\* Top of the loop body: poll is_cancelled, then report progress.
LoopHead ==
    /\ pc = "Pending"
    /\ idx <= total
    /\ IF IsCancelled
       THEN /\ issues' = Append(issues,
                   ValidationResult("WARNING", "PACK_CANCELLED", idx, item.relpath))
            /\ pc' = "Done"
            /\ UNCHANGED <<progress, pre>>
       ELSE /\ progress' = Append(progress, ProgressCall)
            /\ pc' = "SrcCheck"
            /\ pre' = [copied |-> copied, skipped |-> skipped, failed |-> failed, fs |-> fs]
            /\ UNCHANGED issues
    /\ UNCHANGED <<args, outside_pack, fs, dirs, cancelled, idx, copied, skipped, failed,
                   hashes_by_src, src_hash, st, fault, wrote>>

\* src.exists()
SrcCheck ==
    /\ pc = "SrcCheck"
    /\ IF ~exists(fs[item.src])
       THEN /\ Fail("SRC_MISSING")
            /\ NextItem("Missing")
       ELSE /\ pc' = IF verify_hash THEN "Hashing" ELSE "MkDir"
            /\ st' = [st EXCEPT ![idx] = IF verify_hash THEN "Hashing" ELSE @]
            /\ UNCHANGED <<failed, issues, idx, src_hash>>
    /\ UNCHANGED <<args, outside_pack, fs, dirs, cancelled, copied, skipped,
                   hashes_by_src, progress, fault>>
    /\ UNCHANGED <<wrote, pre>>

RecordHash_Dropped(h) == UNCHANGED hashes_by_src

\* hash_file(src) under verify_hash; the digest is stored before anything else
\* happens to the item.
RecordHash(h) == hashes_by_src' = [hashes_by_src EXCEPT ![item.src] = h]

HashSrc ==
    /\ pc = "Hashing"
    /\ LET h == hash_file(fs[item.src], hash_algo)
       IN  IF h = "ValueError"
           THEN /\ pc' = "Raised"
                /\ UNCHANGED <<hashes_by_src, src_hash, failed, issues, idx, st, fault>>
           ELSE \E ok \in BOOLEAN :
                  IF ok
                  THEN /\ src_hash' = h
                       /\ RecordHash(h)
                       /\ pc' = "MkDir"
                       /\ UNCHANGED <<failed, issues, idx, st, fault>>
                  ELSE /\ fault' = [fault EXCEPT ![idx] = "hash_src"]
                       /\ Fail("HASH_SRC_FAILED")
                       /\ NextItem("HashFailed")
                       /\ UNCHANGED hashes_by_src
    /\ UNCHANGED <<args, outside_pack, fs, dirs, cancelled, copied, skipped, progress>>
    /\ UNCHANGED <<wrote, pre>>

\* dst.parent.mkdir(parents=True, exist_ok=True): cannot fail when the
\* directory is already there.
MkDir ==
    /\ pc = "MkDir"
    /\ \E ok \in BOOLEAN :
         IF ok \/ item.dst \in dirs
         THEN /\ dirs' = dirs \cup {item.dst}
              /\ pc' = "DstCheck"
              /\ UNCHANGED <<failed, issues, idx, st, src_hash, fault>>
         ELSE /\ fault' = [fault EXCEPT ![idx] = "mkdir"]
              /\ Fail("DST_DIR_CREATE_FAILED")
              /\ NextItem("DirError")
              /\ UNCHANGED dirs
    /\ UNCHANGED <<args, outside_pack, fs, cancelled, copied, skipped, hashes_by_src, progress>>
    /\ UNCHANGED <<wrote, pre>>

MustSkip_IgnoresOverwrite == exists(fs[item.dst])

MustSkip_OnlyIfSame == exists(fs[item.dst]) /\ ~overwrite /\ same_file(fs[item.src], fs[item.dst])

\* The branch `dst.exists() and not overwrite`.
MustSkip == exists(fs[item.dst]) /\ ~overwrite

\* Whether the skip is reported.
SkipWarns == ~same_file(fs[item.src], fs[item.dst])

DstCheck ==
    /\ pc = "DstCheck"
    /\ IF MustSkip
       THEN /\ skipped' = skipped + 1
            /\ issues' = IF SkipWarns
                         THEN Append(issues, ValidationResult("WARNING",
                                  "DST_EXISTS_SKIPPED", idx, item.relpath))
                         ELSE issues
            /\ NextItem("Skipped")
       ELSE /\ pc' = "Copying"
            /\ st' = [st EXCEPT ![idx] = "Copying"]
            /\ UNCHANGED <<skipped, issues, idx, src_hash>>
    /\ UNCHANGED <<args, outside_pack, fs, dirs, cancelled, copied, failed,
                   hashes_by_src, progress, fault>>
    /\ UNCHANGED <<wrote, pre>>

\* What shutil.copy2 leaves at the destination: the bytes and the times of
\* the source.
copy2(srcfile) == srcfile

\* A destination written but damaged (bytes differ from the source's).
Damaged(srcfile) == [data |-> IF srcfile.data = "A" THEN "B" ELSE "A", mtime |-> Now]

\* A destination left truncated by a copy that failed half way.
Partial == [data |-> "", mtime |-> Now]

CopyOutcomes == {"ok", "damaged", "failed", "failed_partial"}

AfterCopy_NeverVerifies == NextItem("Copied")

\* After a copy that did not raise: verify, or fall off the loop body.
AfterCopy ==
    IF verify_hash /\ src_hash # NoHash
    THEN /\ pc' = "Verifying"
         /\ st' = [st EXCEPT ![idx] = "Copied"]
         /\ UNCHANGED <<idx, src_hash>>
    ELSE NextItem("Copied")

Copy ==
    /\ pc = "Copying"
    /\ \E o \in CopyOutcomes :
         CASE o = "ok" ->
                /\ fs' = [fs EXCEPT ![item.dst] = copy2(fs[item.src])]
                /\ wrote' = wrote \cup {idx}
                /\ copied' = copied + 1
                /\ AfterCopy
                /\ UNCHANGED <<failed, issues, fault>>
           [] o = "damaged" ->
                /\ fs' = [fs EXCEPT ![item.dst] = Damaged(fs[item.src])]
                /\ wrote' = wrote \cup {idx}
                /\ copied' = copied + 1
                /\ fault' = [fault EXCEPT ![idx] = "damaged"]
                /\ AfterCopy
                /\ UNCHANGED <<failed, issues>>
           [] o = "failed" ->
                /\ fault' = [fault EXCEPT ![idx] = "copy"]
                /\ Fail("COPY_FAILED")
                /\ NextItem("CopyFailed")
                /\ UNCHANGED <<fs, copied, wrote>>
           [] o = "failed_partial" ->
                /\ fs' = [fs EXCEPT ![item.dst] = Partial]
                /\ wrote' = wrote \cup {idx}
                /\ fault' = [fault EXCEPT ![idx] = "copy"]
                /\ Fail("COPY_FAILED")
                /\ NextItem("CopyFailed")
                /\ UNCHANGED copied
    /\ UNCHANGED <<args, outside_pack, dirs, cancelled, skipped, hashes_by_src, progress, pre>>

Mismatch_SelfCompare(dst_hash) == dst_hash # dst_hash

\* `dst_hash != src_hash`
Mismatch(dst_hash) == dst_hash # src_hash

\* hash_file(dst) and the comparison with the source digest.
Verify ==
    /\ pc = "Verifying"
    /\ \E ok \in BOOLEAN :
         IF ~ok
         THEN /\ fault' = [fault EXCEPT ![idx] = "hash_dst"]
              /\ Fail("HASH_DST_FAILED")
              /\ NextItem("VerifyFailed")
         ELSE LET dst_hash == hash_file(fs[item.dst], hash_algo)
              IN  IF Mismatch(dst_hash)
                  THEN /\ Fail("HASH_MISMATCH")
                       /\ NextItem("VerifyFailed")
                       /\ UNCHANGED fault
                  ELSE /\ NextItem("Verified")
                       /\ UNCHANGED <<failed, issues, fault>>
    /\ UNCHANGED <<args, outside_pack, fs, dirs, cancelled, copied, skipped, hashes_by_src, progress>>
    /\ UNCHANGED <<wrote, pre>>

Next ==
    \/ Cancel
    \/ Return
    \/ LoopHead
    \/ SrcCheck
    \/ HashSrc
    \/ MkDir
    \/ DstCheck
    \/ Copy
    \/ Verify

Init == PackInit /\ PlannerIdle /\ OthersIdle

Spec == Init /\ [][Next]_vars

InitAny == PackInitAny /\ PlannerIdle /\ OthersIdle

\* execute_pack under any value of hash_algo
SpecAny == InitAny /\ [][Next]_vars

\* PackSummary(total, copied, skipped, failed), once the call has returned.
summary_TotalProcessed ==
    [total |-> copied + skipped + failed, copied |-> copied, skipped |-> skipped,
     failed |-> failed]

\* PackSummary(total=total, copied=copied, skipped=skipped, failed=failed)
summary == [total |-> total, copied |-> copied, skipped |-> skipped, failed |-> failed]

TypeOK ==
    /\ pc \in {"Pending", "SrcCheck", "Hashing", "MkDir", "DstCheck", "Copying",
               "Verifying", "Done", "Raised"}
    /\ idx \in 1..(total + 1)
    /\ copied \in 0..total /\ skipped \in 0..total /\ failed \in 0..total

\* ================================================================ planner
\* Strings are handled a character at a time, as str.strip, str.lower,
\* str.split and the regular expression do.
CharAt(s, i) == SubSeq(s, i, i)
DropFirst(s) == SubSeq(s, 2, Len(s))
DropLast(s) == SubSeq(s, 1, Len(s) - 1)

IsSpace(c) == c \in {" ", "\t", "\n"}
IsDigit(c) == c \in {"0", "1", "2", "3", "4", "5", "6", "7", "8", "9"}

UpperAlpha == "ABCDEFGHIJKLMNOPQRSTUVWXYZ"
LowerAlpha == "abcdefghijklmnopqrstuvwxyz"

UpperChars == {CharAt(UpperAlpha, i) : i \in 1..Len(UpperAlpha)}
LowerOf == [c \in UpperChars |->
               CharAt(LowerAlpha, CHOOSE i \in 1..Len(UpperAlpha) : CharAt(UpperAlpha, i) = c)]

LowerChar(c) == IF c \in UpperChars THEN LowerOf[c] ELSE c

\* str.lower()
RECURSIVE lower(_)
lower(s) == IF s = "" THEN "" ELSE LowerChar(CharAt(s, 1)) \o lower(DropFirst(s))

RECURSIVE lstrip(_)
lstrip(s) == IF s # "" /\ IsSpace(CharAt(s, 1)) THEN lstrip(DropFirst(s)) ELSE s

RECURSIVE rstrip(_)
rstrip(s) == IF s # "" /\ IsSpace(CharAt(s, Len(s))) THEN rstrip(DropLast(s)) ELSE s

\* str.strip()
strip(s) == rstrip(lstrip(s))

\* str.replace for single characters
RECURSIVE replace(_, _, _)
replace(s, old, new) ==
    IF s = "" THEN ""
    ELSE (IF CharAt(s, 1) = old THEN new ELSE CharAt(s, 1)) \o replace(DropFirst(s), old, new)

\* str.split(sep) for a one-character separator
RECURSIVE split(_, _)
split(s, sep) ==
    IF \E i \in 1..Len(s) : CharAt(s, i) = sep
    THEN LET i == CHOOSE k \in 1..Len(s) :
                    /\ CharAt(s, k) = sep
                    /\ \A j \in 1..(k - 1) : CharAt(s, j) # sep
         IN  <<SubSeq(s, 1, i - 1)>> \o split(SubSeq(s, i + 1, Len(s)), sep)
    ELSE <<s>>

\* Path(p).name: the last component
PathName(p) == LET parts == split(p, "/") IN parts[Len(parts)]

\* Path(name).suffix: from the last dot, unless the dot leads or ends the name
suffix(name) ==
    LET dots == {i \in 1..Len(name) : CharAt(name, i) = "."}
    IN  IF dots = {} THEN ""
        ELSE LET i == CHOOSE k \in dots : \A j \in dots : j <= k
             IN  IF i > 1 /\ i < Len(name) THEN SubSeq(name, i, Len(name)) ELSE ""

RECURSIVE lstrip_dots(_)
lstrip_dots(s) == IF s # "" /\ CharAt(s, 1) = "." THEN lstrip_dots(DropFirst(s)) ELSE s

\* scanner._normalize_ext
normalize_ext(name) == lstrip_dots(lower(suffix(name)))

\* scanner.ScanFile for the file at relpath under the input root /in
ScanFile(rel) ==
    [path |-> "/in/" \o rel, relpath |-> rel, name |-> PathName(rel),
     ext |-> normalize_ext(PathName(rel)), size_bytes |-> 1]

\* The length bounds of the version pattern: 'v' and 3 to 4 digits.
MinDigits == 3
MaxDigits == 4

VersionOnlyMatch_AnyDigits(v) ==
    /\ Len(v) >= 2
    /\ lower(CharAt(v, 1)) = "v"
    /\ \A i \in 2..Len(v) : IsDigit(CharAt(v, i))

\* _VERSION_ONLY_RE.match(v): ^v\d{3,4}$ with re.IGNORECASE
VersionOnlyMatch(v) ==
    /\ Len(v) \in (1 + MinDigits)..(1 + MaxDigits)
    /\ lower(CharAt(v, 1)) = "v"
    /\ \A i \in 2..Len(v) : IsDigit(CharAt(v, i))

NoRelpath == "<None>"

validate_pack_inputs(p, a, v) ==
    (IF strip(p) = "" THEN <<ValidationResult("ERROR", "PROJECT_MISSING", "", NoRelpath)>> ELSE <<>>)
    \o (IF strip(a) = "" THEN <<ValidationResult("ERROR", "ASSET_MISSING", "", NoRelpath)>> ELSE <<>>)
    \o (IF strip(v) = "" THEN <<ValidationResult("ERROR", "VERSION_MISSING", "", NoRelpath)>>
        ELSE IF ~VersionOnlyMatch(strip(v))
             THEN <<ValidationResult("ERROR", "VERSION_INVALID", "", NoRelpath)>>
             ELSE <<>>)

DOC_EXTS == {"md", "txt", "pdf", "csv", "json", "xml", "yml", "yaml"}
TEX_EXTS == {"png", "jpg", "jpeg", "tga", "tif", "tiff", "exr", "hdr", "bmp"}
MAYA_EXTS == {"ma", "mb"}
MAX_EXTS == {"max"}
EXPORT_MAP ==
    [e \in {"fbx", "abc", "usd", "usda", "usdc", "obj", "gltf", "glb"} |->
        CASE e = "fbx" -> "export/fbx"
          [] e = "abc" -> "export/abc"
          [] e \in {"usd", "usda", "usdc"} -> "export/usd"
          [] e = "obj" -> "export/obj"
          [] e \in {"gltf", "glb"} -> "export/gltf"]

Elems(q) == {q[i] : i \in DOMAIN q}

category_for_file_ExtFirst(f) ==
    LET ext == lower(f.ext)
        parts == Elems(split(replace(lower(f.relpath), "\\", "/"), "/"))
    IN  IF ext \in TEX_EXTS THEN "textures"
        ELSE IF ext \in DOC_EXTS THEN "docs"
        ELSE IF ext \in MAYA_EXTS THEN "source/maya"
        ELSE IF ext \in MAX_EXTS THEN "source/max"
        ELSE IF ext \in DOMAIN EXPORT_MAP THEN EXPORT_MAP[ext]
        ELSE IF "tex" \in parts \/ "textures" \in parts THEN "textures"
        ELSE IF "docs" \in parts \/ "doc" \in parts THEN "docs"
        ELSE IF "source" \in parts THEN "source/other"
        ELSE "other"

\* planner._category_for_file
category_for_file(f) ==
    LET ext == lower(f.ext)
        parts == Elems(split(replace(lower(f.relpath), "\\", "/"), "/"))
    IN  IF "tex" \in parts \/ "textures" \in parts THEN "textures"
        ELSE IF "docs" \in parts \/ "doc" \in parts THEN "docs"
        ELSE IF "source" \in parts
             THEN IF ext \in MAYA_EXTS \/ "maya" \in parts THEN "source/maya"
                  ELSE IF ext \in MAX_EXTS \/ "max" \in parts THEN "source/max"
                  ELSE "source/other"
        ELSE IF ext \in TEX_EXTS THEN "textures"
        ELSE IF ext \in DOC_EXTS THEN "docs"
        ELSE IF ext \in MAYA_EXTS THEN "source/maya"
        ELSE IF ext \in MAX_EXTS THEN "source/max"
        ELSE IF ext \in DOMAIN EXPORT_MAP THEN EXPORT_MAP[ext]
        ELSE "other"

\* Path(output_root).resolve(): an absolute path stays, a relative one is
\* taken from the working directory (no symbolic links in the model).
resolve(root) ==
    IF root # "" /\ CharAt(root, 1) = "/" THEN root
    ELSE IF root = "" THEN cwd
    ELSE cwd \o "/" \o root

\* a / b on paths
Join(a, b) == a \o "/" \o b

Dst_NoCategory(base, cat, filename) == Join(base, filename)

\* base / cat / filename
Dst(base, cat, filename) == Join(Join(base, cat), filename)

\* os.path.normcase(os.path.normpath(dst)): the destinations built above have
\* no empty, "." or ".." component, so normpath leaves them alone; normcase
\* lower-cases on Windows and is the identity on POSIX.  The separator is
\* written "/" on both.
normcase(path) == IF platform = "nt" THEN lower(path) ELSE path

CollisionCap == 25

MoreNeeded_OffByOne(n) == n >= CollisionCap

\* `len(collisions) > 25`
MoreNeeded(n) == n > CollisionCap

\* One PackPlanItem of build_pack_plan's loop.
PlanItemFor(f, base) ==
    LET cat == category_for_file(f)
    IN  [src |-> f.path, relpath |-> f.relpath,
         dst |-> Dst(base, cat, PathName(f.path)), category |-> cat]

RECURSIVE PlanFrom(_, _)
PlanFrom(fl, base) ==
    IF fl = <<>> THEN <<>>
    ELSE <<PlanItemFor(Head(fl), base)>> \o PlanFrom(Tail(fl), base)

\* build_pack_plan's list of plan items
PlanFor(fl, root, p, a, v) ==
    PlanFrom(fl, Join(Join(Join(resolve(root), strip(p)), strip(a)), strip(v)))

RECURSIVE KeysOf(_)
\* the dst_map key of every plan item, in plan order
KeysOf(pl) ==
    IF pl = <<>> THEN <<>> ELSE <<normcase(Head(pl).dst)>> \o KeysOf(Tail(pl))

RECURSIVE SeqOfSet(_)
\* a set of positions as the ascending sequence
SeqOfSet(S) ==
    IF S = {} THEN <<>>
    ELSE LET m == CHOOSE x \in S : \A y \in S : x <= y
         IN  <<m>> \o SeqOfSet(S \ {m})

\* collisions: for every key held by more than one item the position of its
\* first item (items[0]), in the order the keys entered dst_map
Collisions(keys) ==
    SeqOfSet({i \in DOMAIN keys :
                 /\ \A j \in 1..(i - 1) : keys[j] # keys[i]
                 /\ \E j \in (i + 1)..Len(keys) : keys[j] = keys[i]})

CollisionIssues(pl) ==
    LET coll == Collisions(KeysOf(pl))
        shown == SubSeq(coll, 1, IF Len(coll) < CollisionCap THEN Len(coll) ELSE CollisionCap)
    IN  [k \in DOMAIN shown |->
            ValidationResult("ERROR", "DEST_COLLISION", pl[shown[k]].dst, pl[shown[k]].relpath)]
        \o (IF MoreNeeded(Len(coll))
            THEN <<ValidationResult("ERROR", "DEST_COLLISION_MORE",
                       ToString(Len(coll) - CollisionCap), NoRelpath)>>
            ELSE <<>>)

HasError(fs_) == \E k \in DOMAIN fs_ : fs_[k].level = "ERROR"

build_pack_plan(fl, root, p, a, v) ==
    LET idissues == validate_pack_inputs(p, a, v)
    IN  IF HasError(idissues)
        THEN [plan |-> <<>>, issues |-> idissues]
        ELSE LET pl == PlanFor(fl, root, p, a, v)
             IN  [plan |-> pl, issues |-> idissues \o CollisionIssues(pl)]

\* ----------------------------------------------------------- planner inputs
Pool == {ScanFile(r) : r \in {"geo/A_v001.fbx", "export/A_v001.fbx", "export/a_v001.fbx",
                              "tex/A_v001_diffuse.png", "source/maya/A_v001.ma",
                              "docs/readme.md"}}

RECURSIVE DistinctSeqs(_, _)
\* the lists of at most n different elements of S
DistinctSeqs(S, n) ==
    IF n = 0 THEN {<<>>}
    ELSE LET shorter == DistinctSeqs(S, n - 1)
             longest == {r \in shorter : Len(r) = n - 1}
         IN  shorter \cup UNION {{Append(q, e) : e \in S \ Elems(q)} : q \in longest}

\* g colliding pairs: geo/n<j>.fbx and export/n<j>.fbx both go to export/fbx.
RECURSIVE ManyPairs(_)
ManyPairs(g) ==
    IF g = 0 THEN <<>>
    ELSE ManyPairs(g - 1) \o <<ScanFile("geo/n" \o ToString(g) \o ".fbx"),
                               ScanFile("export/n" \o ToString(g) \o ".fbx")>>

Projects == {"", " ", "Proj", " Proj"}
Assets == {"", "CrateA", "CrateA "}
Versions == {"", " ", "v001", "V0012", "v01", "v00001", "001", "v0x1", " v001 "}

\* Identities that pass validate_pack_inputs, for the larger file lists.
Passing == {<<"Proj", "CrateA", "v001">>, <<" Proj", "CrateA ", " V0012 ">>}

\* An absolute output root, and a relative one under two working directories.
Roots == {<<"/out", "/w1">>, <<"out", "/w1">>, <<"out", "/w2">>}

\* Every identity with a short file list, the passing identities with every
\* file list, and lists with CollisionCap-1 .. MaxGroups colliding pairs.
PlannerInit ==
    /\ platform \in {"posix", "nt"}
    /\ \/ /\ files \in DistinctSeqs(Pool, 1)
          /\ project \in Projects /\ asset \in Assets /\ version \in Versions
          /\ output_root = "/out" /\ cwd = "/w1"
       \/ /\ files \in DistinctSeqs(Pool, MaxFiles)
          /\ \E id \in Passing : project = id[1] /\ asset = id[2] /\ version = id[3]
          /\ \E rc \in Roots : output_root = rc[1] /\ cwd = rc[2]
       \/ /\ files \in {ManyPairs(g) : g \in (CollisionCap - 1)..MaxGroups}
          /\ project = "Proj" /\ asset = "CrateA" /\ version = "v001"
          /\ output_root = "/out" /\ cwd = "/w1"
    /\ built = [done |-> FALSE, plan |-> <<>>, issues |-> <<>>]
    /\ validated = [done |-> FALSE, results |-> <<>>]

\* No pack run in progress.
PackIdle ==
    /\ plan = <<>> /\ overwrite = FALSE /\ verify_hash = TRUE /\ hash_algo = "sha1"
    /\ fs = [p \in Paths |-> NoFile] /\ dirs = {} /\ cancelled = FALSE
    /\ idx = 1 /\ pc = "Done"
    /\ copied = 0 /\ skipped = 0 /\ failed = 0
    /\ issues = <<>>
    /\ hashes_by_src = [s \in Srcs |-> NoHash]
    /\ src_hash = NoHash
    /\ progress = <<>>
    /\ st = <<>> /\ fault = <<>> /\ wrote = {}
    /\ pre = [copied |-> 0, skipped |-> 0, failed |-> 0, fs |-> fs]

InitPlan == PlannerInit /\ PackIdle /\ OthersIdle

CallValidatePackInputs ==
    /\ ~validated.done
    /\ validated' = [done |-> TRUE, results |-> validate_pack_inputs(project, asset, version)]
    /\ UNCHANGED <<pack_vars, other_vars, files, output_root, project, asset, version,
                   platform, cwd, built>>

CallBuildPackPlan ==
    /\ ~built.done
    /\ LET r == build_pack_plan(files, output_root, project, asset, version)
       IN  built' = [done |-> TRUE, plan |-> r.plan, issues |-> r.issues]
    /\ UNCHANGED <<pack_vars, other_vars, files, output_root, project, asset, version,
                   platform, cwd, validated>>

NextPlan == CallValidatePackInputs \/ CallBuildPackPlan

SpecPlan == InitPlan /\ [][NextPlan]_vars

\* ------------------------------------------------------ categoriser inputs
\* Folders with and without a hint, in either case and with either separator.
CatFolders == {"", "geo/", "export/", "tex/", "Textures/", "docs/", "DOC/", "source/",
               "source/maya/", "Source/Max/", "maya/", "tex/docs/", "docs/source/",
               "source/tex/", "a/b/source/c/", "texture/", "tex\\", "my docs/"}

\* Base names, some of them equal to a hint.
CatNames == {"a", "A_v001.fbx", "tex", "docs", "source", "maya.x"}

\* Every extension the buckets know, in lower and upper case, and others.
CatExts == TEX_EXTS \cup DOC_EXTS \cup MAYA_EXTS \cup MAX_EXTS \cup DOMAIN EXPORT_MAP
           \cup {"", "PNG", "Ma", "FBX", "blend", "zip", "max2"}

CatInit ==
    /\ cat_rel \in {d \o n : d \in CatFolders, n \in CatNames}
    /\ cat_ext \in CatExts
    /\ cat_out = NoCategory

CallCategoryForFile ==
    /\ cat_out = NoCategory
    /\ cat_out' = category_for_file([relpath |-> cat_rel, ext |-> cat_ext])
    /\ UNCHANGED <<pack_vars, planner_vars, ui_vars, val_vars, scan_vars, prof_vars, cat_rel, cat_ext>>

NextCat == CallCategoryForFile

InitCat == PackIdle /\ PlannerIdle /\ UiIdle /\ ValIdle /\ ScanIdle /\ ProfIdle /\ CatInit

SpecCat == InitCat /\ [][NextCat]_vars

\* --------------------------------------------------------------- validator
\* Characters in code-point order, for comparing strings as Python does.
CodePoints == " ()-.0123456789" \o UpperAlpha \o "_" \o LowerAlpha

RankOf == [c \in {CharAt(CodePoints, i) : i \in 1..Len(CodePoints)} |->
              CHOOSE i \in 1..Len(CodePoints) : CharAt(CodePoints, i) = c]

RECURSIVE StrLess(_, _)
\* a < b on str
StrLess(a, b) ==
    IF a = "" THEN b # ""
    ELSE IF b = "" THEN FALSE
    ELSE IF CharAt(a, 1) = CharAt(b, 1) THEN StrLess(DropFirst(a), DropFirst(b))
    ELSE RankOf[CharAt(a, 1)] < RankOf[CharAt(b, 1)]

\* ext_counts of scan_folder: how many files carry each extension
ExtCounts(fl) ==
    [e \in {fl[i].ext : i \in DOMAIN fl} |-> Cardinality({i \in DOMAIN fl : fl[i].ext = e})]

\* sorted(..., key=lambda kv: (-kv[1], kv[0]))
KeyBefore(counts, a, b) ==
    counts[a] > counts[b] \/ (counts[a] = counts[b] /\ StrLess(a, b))

RECURSIVE SortedItems(_, _)
SortedItems(counts, todo) ==
    IF todo = {} THEN <<>>
    ELSE LET first == CHOOSE a \in todo : \A b \in todo \ {a} : KeyBefore(counts, a, b)
         IN  <<[ext |-> first, count |-> counts[first]]>>
             \o SortedItems(counts, todo \ {first})

\* ScanSummary.extensions, in the order of the dict
Extensions(fl) == SortedItems(ExtCounts(fl), DOMAIN ExtCounts(fl))

\* " " in s
HasSpace(s) == \E i \in 1..Len(s) : CharAt(s, i) = " "

IsDelim(c) == c \in {"_", "-", "."}

TokenMinDigits == 3
TokenMaxDigits == 4

VersionSearch_Anywhere(name) ==
    \E i \in 1..Len(name) : \E n \in TokenMinDigits..TokenMaxDigits :
        /\ i + n <= Len(name)
        /\ lower(CharAt(name, i)) = "v"
        /\ \A k \in (i + 1)..(i + n) : IsDigit(CharAt(name, k))

\* _VERSION_RE.search(name): (^|[_\-.])v(\d{3,4})($|[_\-.]) with re.IGNORECASE
VersionSearch(name) ==
    \E i \in 1..Len(name) : \E n \in TokenMinDigits..TokenMaxDigits :
        /\ i + n <= Len(name)
        /\ i = 1 \/ IsDelim(CharAt(name, i - 1))
        /\ lower(CharAt(name, i)) = "v"
        /\ \A k \in (i + 1)..(i + n) : IsDigit(CharAt(name, k))
        /\ i + n = Len(name) \/ IsDelim(CharAt(name, i + n + 1))

VERSION_EXEMPT == {"md", "txt", "pdf", "csv", "log"}

\* for req in profile.required_folders: ...
RECURSIVE RequiredFolders(_, _)
RequiredFolders(reqs, top) ==
    IF reqs = <<>> THEN <<>>
    ELSE (IF Head(reqs) \notin top
          THEN <<ValidationResult("ERROR", "REQ_FOLDER_MISSING", Head(reqs), Head(reqs) \o "/")>>
          ELSE <<>>)
         \o RequiredFolders(Tail(reqs), top)

\* for d in existing_top: ...  (a set: some order)
RECURSIVE SpaceInDirnames(_)
SpaceInDirnames(top) ==
    IF top = {} THEN <<>>
    ELSE LET d == CHOOSE x \in top : TRUE
         IN  (IF HasSpace(d)
              THEN <<ValidationResult("ERROR", "SPACE_IN_DIRNAME", d, d \o "/")>>
              ELSE <<>>)
             \o SpaceInDirnames(top \ {d})

SpaceFindings_Both(f) ==
    (IF HasSpace(f.name)
     THEN <<ValidationResult("ERROR", "SPACE_IN_FILENAME", f.name, f.relpath)>> ELSE <<>>)
    \o (IF HasSpace(f.relpath)
        THEN <<ValidationResult("ERROR", "SPACE_IN_PATH", "", f.relpath)>> ELSE <<>>)

\* the body of the first "for f in files" loop
SpaceFindings(f) ==
    (IF HasSpace(f.name)
     THEN <<ValidationResult("ERROR", "SPACE_IN_FILENAME", f.name, f.relpath)>> ELSE <<>>)
    \o (IF HasSpace(f.relpath) /\ ~HasSpace(f.name)
        THEN <<ValidationResult("ERROR", "SPACE_IN_PATH", "", f.relpath)>> ELSE <<>>)

RECURSIVE SpacesInFiles(_)
SpacesInFiles(fl) ==
    IF fl = <<>> THEN <<>> ELSE SpaceFindings(Head(fl)) \o SpacesInFiles(Tail(fl))

\* the second "for f in files" loop
RECURSIVE VersionTokens(_)
VersionTokens(fl) ==
    IF fl = <<>> THEN <<>>
    ELSE (IF Head(fl).ext \notin VERSION_EXEMPT /\ ~VersionSearch(Head(fl).name)
          THEN <<ValidationResult("WARNING", "VERSION_TOKEN_MISSING", "", Head(fl).relpath)>>
          ELSE <<>>)
         \o VersionTokens(Tail(fl))

Bucket(e, n) == e \o ":" \o ToString(n)

UnsupportedBucket_PerFile(b, allowed) ==
    IF b.ext = ""
    THEN <<ValidationResult("WARNING", "NO_EXTENSION_FILES", Bucket("", b.count), NoRelpath)>>
    ELSE IF b.ext \notin allowed
         THEN [k \in 1..b.count |->
                  ValidationResult("WARNING", "UNSUPPORTED_EXTENSION",
                                   Bucket(b.ext, b.count), NoRelpath)]
         ELSE <<>>

\* the body of "for ext, count in summary.extensions.items()"
UnsupportedBucket(b, allowed) ==
    IF b.ext = ""
    THEN <<ValidationResult("WARNING", "NO_EXTENSION_FILES", Bucket("", b.count), NoRelpath)>>
    ELSE IF b.ext \notin allowed
         THEN <<ValidationResult("WARNING", "UNSUPPORTED_EXTENSION",
                                 Bucket(b.ext, b.count), NoRelpath)>>
         ELSE <<>>

RECURSIVE UnsupportedExtensions(_, _)
UnsupportedExtensions(exts, allowed) ==
    IF exts = <<>> THEN <<>>
    ELSE UnsupportedBucket(Head(exts), allowed) \o UnsupportedExtensions(Tail(exts), allowed)

RelpathsOf_Last(fl, key) ==
    LET at == {i \in DOMAIN fl : lower(fl[i].name) = key}
    IN  [first |-> fl[CHOOSE i \in at : \A j \in at : i >= j].relpath,
         count |-> Cardinality(at)]

\* name_map[f.name.lower()]: the relpaths with that key, in the order of files
RelpathsOf(fl, key) ==
    LET at == {i \in DOMAIN fl : lower(fl[i].name) = key}
    IN  [first |-> fl[CHOOSE i \in at : \A j \in at : i <= j].relpath,
         count |-> Cardinality(at)]

\* for key, relpaths in name_map.items(): the keys come in the order in which
\* they first appear in files
RECURSIVE DuplicateNames(_, _)
DuplicateNames(fl, i) ==
    IF i > Len(fl) THEN <<>>
    ELSE LET key == lower(fl[i].name)
             rp == RelpathsOf(fl, key)
         IN  (IF (\A j \in 1..(i - 1) : lower(fl[j].name) # key) /\ rp.count > 1
              THEN <<ValidationResult("WARNING", "DUPLICATE_FILENAME",
                                      Bucket(key, rp.count), rp.first)>>
              ELSE <<>>)
             \o DuplicateNames(fl, i + 1)

ProfileActive_First(rest, prof) ==
    <<ValidationResult("INFO", "PROFILE_ACTIVE", prof.name, NoRelpath)>> \o rest

\* results.append(... PROFILE_ACTIVE ...)
ProfileActive(rest, prof) ==
    rest \o <<ValidationResult("INFO", "PROFILE_ACTIVE", prof.name, NoRelpath)>>

\* validator.validate_delivery; top is what root_path.iterdir() gives.
validate_delivery(top, fl, exts, prof) ==
    IF ~top.readable
    THEN <<ValidationResult("ERROR", "ROOT_UNREADABLE", "", NoRelpath)>>
    ELSE ProfileActive(RequiredFolders(prof.required_folders, top.dirs)
                       \o SpaceInDirnames(top.dirs)
                       \o SpacesInFiles(fl)
                       \o VersionTokens(fl)
                       \o UnsupportedExtensions(exts, prof.allowed_extensions)
                       \o DuplicateNames(fl, 1),
                       prof)

\* --------------------------------------------------------- validator inputs
MaxScanned == 2

\* Files with a space in the name, in a folder, in both or nowhere; with and
\* without a version token; with an allowed, another or no extension; two
\* names that differ only in case.
ScanPool == {ScanFile(r) : r \in {"geo/A_v001.fbx", "export/a_V001.FBX", "tex/my tex.png",
                                  "my dir/B_v0012.psd", "my dir/c d", "docs/readme.md",
                                  "geo/v00001.psd", "geo/rev001.fbx"}}

TopDirs == {"geo", "my dir"}

AllRules == {ProfileRules(a, b, c, d) : a \in BOOLEAN, b \in BOOLEAN, c \in BOOLEAN,
                                        d \in BOOLEAN}

\* An allow-list without psd, and one with psd and with the empty extension
\* that from_json_dict makes of ".".
AllowLists == {{"fbx", "png", "md"}, {"fbx", "png", "md", "psd", ""}}

Profiles == {ProfileConfig(n, <<"geo", "tex">>, al, r) :
                 n \in {"Game", "Custom"}, al \in AllowLists, r \in AllRules}

ValInit ==
    /\ v_top \in {[readable |-> FALSE, dirs |-> {}]}
                 \cup {[readable |-> TRUE, dirs |-> d] : d \in SUBSET TopDirs}
    /\ v_files \in DistinctSeqs(ScanPool, MaxScanned)
    /\ v_summary = Extensions(v_files)
    /\ profile \in Profiles
    /\ v_results = [done |-> FALSE, results |-> <<>>]

CallValidateDelivery ==
    /\ ~v_results.done
    /\ v_results' = [done |-> TRUE,
                     results |-> validate_delivery(v_top, v_files, v_summary, profile)]
    /\ UNCHANGED <<pack_vars, planner_vars, ui_vars, cat_vars, scan_vars, prof_vars, v_top, v_files,
                   v_summary, profile>>

NextValidate == CallValidateDelivery

InitValidate == PackIdle /\ PlannerIdle /\ UiIdle /\ CatIdle /\ ScanIdle /\ ProfIdle /\ ValInit

SpecValidate == InitValidate /\ [][NextValidate]_vars

\* ----------------------------------------------------------------- scanner
\* d.startswith(".")
StartsWithDot(name) == name # "" /\ CharAt(name, 1) = "."

Pruned_HiddenOnly(d) == ignore_hidden /\ StartsWithDot(d)

\* the two "continue" tests on a directory name
Pruned(d) == d \in ignore_dirs \/ (ignore_hidden /\ StartsWithDot(d))

\* the "continue" test on a file name
SkippedFile(fn) == ignore_hidden /\ StartsWithDot(fn)

Bump_Once(counts, e) == (e :> 1) @@ counts

\* ext_counts[key] = ext_counts.get(key, 0) + 1
Bump(counts, e) ==
    IF e \in DOMAIN counts THEN [counts EXCEPT ![e] = @ + 1] ELSE (e :> 1) @@ counts

\* int(stat.st_size) if stat else 0
SizeOf(f) == IF f.size = NoStat THEN 0 ELSE f.size

\* The locals files, total_bytes and ext_counts after "for fn in filenames"
\* in the directory with relative path prefix.
RECURSIVE ScanFiles(_, _, _)
ScanFiles(fls, prefix, acc) ==
    IF fls = <<>> THEN acc
    ELSE LET f == Head(fls)
             sf == [ScanFile(prefix \o f.name) EXCEPT !.size_bytes = SizeOf(f)]
         IN  IF SkippedFile(f.name) THEN ScanFiles(Tail(fls), prefix, acc)
             ELSE ScanFiles(Tail(fls), prefix,
                    [files |-> Append(acc.files, sf),
                     bytes |-> acc.bytes + SizeOf(f),
                     counts |-> Bump(acc.counts, sf.ext)])

\* The allow-list built into scan_folder.
SCAN_ALLOW == {"ma", "mb", "max", "blend",
               "fbx", "abc", "usd", "usda", "usdc", "obj", "gltf", "glb",
               "png", "jpg", "jpeg", "tif", "tiff", "exr", "tga", "bmp", "hdr",
               "json", "xml", "txt", "md", "pdf", "csv", "yml", "yaml",
               "mtl", "wav", "zip", "7z", "rar"}

\* the dict unsupported
UnsupportedCounts(counts) ==
    [k \in {IF e = "" THEN "(no_ext)" ELSE e : e \in DOMAIN counts \ SCAN_ALLOW} |->
        IF k = "(no_ext)" /\ "" \in DOMAIN counts THEN counts[""] ELSE counts[k]]

\* root_path.is_dir() is false: raise ValueError
ScanRaise ==
    /\ s_pc = "Start" /\ ~root_is_dir
    /\ s_pc' = "Raised"
    /\ UNCHANGED <<pack_vars, planner_vars, ui_vars, cat_vars, val_vars, prof_vars, tree, root_is_dir,
                   ignore_dirs, ignore_hidden, walk, s_files, total_dirs, total_bytes,
                   ext_counts, scanned>>

\* os.walk(root_path) is entered: the root is the first directory it yields.
ScanStart ==
    /\ s_pc = "Start" /\ root_is_dir
    /\ s_pc' = "Walking"
    /\ walk' = <<[prefix |-> "", node |-> tree]>>
    /\ UNCHANGED <<pack_vars, planner_vars, ui_vars, cat_vars, val_vars, prof_vars, tree, root_is_dir,
                   ignore_dirs, ignore_hidden, s_files, total_dirs, total_bytes,
                   ext_counts, scanned>>

\* One iteration of "for dirpath, dirnames, filenames in os.walk(...)": the
\* directory is counted, its subdirectories are filtered in place, so that
\* os.walk descends only into those kept, and its files are recorded.
WalkDir ==
    /\ s_pc = "Walking" /\ walk # <<>>
    /\ LET here == Head(walk)
           filtered == SelectSeq(here.node.dirs, LAMBDA d : ~Pruned(d.name))
           below == [k \in DOMAIN filtered |->
                        [prefix |-> here.prefix \o filtered[k].name \o "/",
                         node |-> filtered[k]]]
           acc == ScanFiles(here.node.files, here.prefix,
                            [files |-> s_files, bytes |-> total_bytes, counts |-> ext_counts])
       IN  /\ total_dirs' = total_dirs + 1
           /\ walk' = below \o Tail(walk)
           /\ s_files' = acc.files
           /\ total_bytes' = acc.bytes
           /\ ext_counts' = acc.counts
    /\ UNCHANGED <<pack_vars, planner_vars, ui_vars, cat_vars, val_vars, prof_vars, tree, root_is_dir,
                   ignore_dirs, ignore_hidden, s_pc, scanned>>

\* After the walk: the summary is built and returned with files.
ScanReturn ==
    /\ s_pc = "Walking" /\ walk = <<>>
    /\ s_pc' = "Done"
    /\ scanned' = [root |-> "/in", total_files |-> Len(s_files), total_dirs |-> total_dirs,
                   total_bytes |-> total_bytes,
                   extensions |-> SortedItems(ext_counts, DOMAIN ext_counts),
                   unsupported |-> SortedItems(UnsupportedCounts(ext_counts),
                                               DOMAIN UnsupportedCounts(ext_counts))]
    /\ UNCHANGED <<pack_vars, planner_vars, ui_vars, cat_vars, val_vars, prof_vars, tree, root_is_dir,
                   ignore_dirs, ignore_hidden, walk, s_files, total_dirs, total_bytes,
                   ext_counts>>

\* ------------------------------------------------------------ scanner inputs
\* The parts a scan root is put together from.
RootFiles == {<<>>, <<File("readme.md", 3)>>, <<File(".DS_Store", 5), File("notes", NoStat)>>}

GitDir == Dir(".git", <<>>, <<File("config", 2)>>)

ModulesDir == Dir("node_modules", <<Dir("geo", <<>>, <<File("m.fbx", 7)>>)>>,
                  <<File("pkg.json", 4)>>)

GeoDirs == {Dir("geo", <<>>, <<File("A_v001.fbx", 10), File("B_v001.FBX", 20)>>),
            Dir("geo", <<Dir(".thumbs", <<>>, <<File("t.png", 1)>>),
                         Dir("node_modules", <<>>, <<File("x.psd", 6)>>),
                         Dir("lod", <<>>, <<File("A_lod1.fbx", 8), File(".keep", 0)>>)>>,
                <<File("A_v001.fbx", 10), File(".hidden.png", 9), File("noext", 2)>>)}

Optional(d) == {<<>>, <<d>>}

Trees == {Dir("", g \o m \o o, f) :
              g \in Optional(GitDir), m \in Optional(ModulesDir),
              o \in UNION {Optional(d) : d \in GeoDirs}, f \in RootFiles}

IgnoreSets == {{}, {"node_modules"}, {".git", "node_modules", "geo"}}

ScanInit ==
    /\ tree \in Trees
    /\ root_is_dir \in BOOLEAN
    /\ ignore_dirs \in IgnoreSets
    /\ ignore_hidden \in BOOLEAN
    /\ walk = <<>> /\ s_pc = "Start"
    /\ ScanLocals

NextScan == ScanRaise \/ ScanStart \/ WalkDir \/ ScanReturn

InitScan == PackIdle /\ PlannerIdle /\ UiIdle /\ CatIdle /\ ValIdle /\ ProfIdle /\ ScanInit

SpecScan == InitScan /\ [][NextScan]_vars

\* ----------------------------------------------------------- profile store
AllOn == ProfileRules(TRUE, TRUE, TRUE, TRUE)

\* profiles.default_profiles, in the order of the dict
DefaultNames == <<"Game", "VFX", "Mobile">>

default_profiles ==
    [n \in {"Game", "VFX", "Mobile"} |->
        CASE n = "Game" ->
                ProfileConfig("Game", <<"geo", "tex", "export", "source">>,
                    {"fbx", "obj", "gltf", "glb", "usd", "usda", "usdc",
                     "png", "jpg", "jpeg", "tga", "tif", "tiff", "exr",
                     "json", "txt", "md", "pdf", "zip", "7z"}, AllOn)
          [] n = "VFX" ->
                ProfileConfig("VFX",
                    <<"geo", "tex", "rig", "cache", "export", "source", "docs">>,
                    {"ma", "mb", "max", "blend", "abc", "fbx", "usd", "usda", "usdc", "obj",
                     "png", "jpg", "jpeg", "tga", "tif", "tiff", "exr", "hdr",
                     "json", "xml", "txt", "md", "pdf", "csv", "mtl", "zip", "7z", "rar"},
                    AllOn)
          [] n = "Mobile" ->
                ProfileConfig("Mobile", <<"geo", "tex", "export", "docs">>,
                    {"fbx", "gltf", "glb", "png", "jpg", "jpeg",
                     "json", "txt", "md", "pdf", "zip"}, AllOn)]

\* c.isalnum() or c in ("_", "-", " "), on ASCII
IsSafeChar(c) ==
    \/ IsDigit(c)
    \/ \E i \in 1..Len(LowerAlpha) : c = CharAt(LowerAlpha, i) \/ c = CharAt(UpperAlpha, i)
    \/ c \in {"_", "-", " "}

RECURSIVE safe(_)
\* "".join(c for c in profile_name if ...)
safe(name) ==
    IF name = "" THEN ""
    ELSE (IF IsSafeChar(CharAt(name, 1)) THEN CharAt(name, 1) ELSE "") \o safe(DropFirst(name))

\* profiles.profile_path, inside profiles_dir
profile_path(name) == safe(name) \o ".json"

RECURSIVE sorted(_)
\* sorted(list(S)) for a set of str
sorted(S) ==
    IF S = {} THEN <<>>
    ELSE LET first == CHOOSE a \in S : \A b \in S \ {a} : StrLess(a, b)
         IN  <<first>> \o sorted(S \ {first})

\* profiles.to_json_dict: the dataclass as a dict, the extensions as a sorted list
to_json_dict(prof) == [prof EXCEPT !.allowed_extensions = sorted(prof.allowed_extensions)]

\* A file with the JSON text of d.
Stored(d) == [exists |-> TRUE, text |-> <<d>>]

NeedsWrite_Always(path, files_) == TRUE

\* not path.exists()
NeedsWrite(path, files_) == ~files_[path].exists

\* The loop of ensure_default_profiles_on_disk over names, on the directory
\* files_; the write of the file number fail_at, if it is made, raises OSError.
RECURSIVE EnsureLoop(_, _, _)
EnsureLoop(names, files_, fail_at) ==
    IF names = <<>> THEN [disk |-> files_, raised |-> FALSE]
    ELSE LET path == profile_path(Head(names))
         IN  IF ~NeedsWrite(path, files_) THEN EnsureLoop(Tail(names), files_, fail_at - 1)
             ELSE IF fail_at = 1 THEN [disk |-> files_, raised |-> TRUE]
             ELSE EnsureLoop(Tail(names),
                             [files_ EXCEPT ![path] = Stored(to_json_dict(default_profiles[Head(names)]))],
                             fail_at - 1)

MaxOps == 3

\* profiles.ensure_default_profiles_on_disk returns.
EnsureDefaultProfilesOnDisk ==
    /\ ops < MaxOps
    /\ LET r == EnsureLoop(DefaultNames, disk, 0)
       IN  /\ disk' = r.disk
           /\ last_op' = "ensure"
    /\ pdir' = TRUE
    /\ before' = disk
    /\ ops' = ops + 1
    /\ saved' = <<>> /\ loaded' = <<>>
    /\ UNCHANGED <<pack_vars, planner_vars, ui_vars, cat_vars, val_vars, scan_vars>>

\* profiles.ensure_default_profiles_on_disk raises OSError from one of its
\* writes, the earlier ones made.
EnsureRaises ==
    /\ ops < MaxOps
    /\ \E k \in 1..Len(DefaultNames) :
           LET r == EnsureLoop(DefaultNames, disk, k)
           IN  /\ r.raised
               /\ disk' = r.disk
    /\ last_op' = "ensure_raised"
    /\ pdir' = TRUE
    /\ before' = disk
    /\ ops' = ops + 1
    /\ saved' = <<>> /\ loaded' = <<>>
    /\ UNCHANGED <<pack_vars, planner_vars, ui_vars, cat_vars, val_vars, scan_vars>>

\* profiles.save_profile: writes, or overwrites, the file of the profile's name.
SaveProfile(prof) ==
    /\ ops < MaxOps
    /\ profile_path(prof.name) \in ProfileFiles
    /\ disk' = [disk EXCEPT ![profile_path(prof.name)] = Stored(to_json_dict(prof))]
    /\ last_op' = "save"
    /\ pdir' = TRUE
    /\ before' = disk
    /\ ops' = ops + 1
    /\ saved' = <<prof>> /\ loaded' = <<>>
    /\ UNCHANGED <<pack_vars, planner_vars, ui_vars, cat_vars, val_vars, scan_vars>>

RECURSIVE strip_slashes(_)
\* s.strip("/\\")
strip_slashes(s) ==
    IF s # "" /\ CharAt(s, 1) \in {"/", "\\"} THEN strip_slashes(DropFirst(s))
    ELSE IF s # "" /\ CharAt(s, Len(s)) \in {"/", "\\"} THEN strip_slashes(DropLast(s))
    ELSE s

\* [f(x) for x in xs if str(x).strip()] of from_json_dict's required folders
RECURSIVE RequiredIn(_)
RequiredIn(xs) ==
    IF xs = <<>> THEN <<>>
    ELSE (IF strip(Head(xs)) # "" THEN <<strip_slashes(strip(Head(xs)))>> ELSE <<>>)
             \o RequiredIn(Tail(xs))

from_json_dict_DefaultName(d) ==
    ProfileConfig("Custom",
                  RequiredIn(d.required_folders),
                  {lstrip_dots(lower(x)) : x \in {y \in Elems(d.allowed_extensions) : strip(y) # ""}},
                  d.rules)

\* profiles.from_json_dict, of a dict that has the four rules as booleans
from_json_dict(d) ==
    ProfileConfig(IF d.name # "" THEN d.name ELSE "Custom",
                  RequiredIn(d.required_folders),
                  {lstrip_dots(lower(x)) : x \in {y \in Elems(d.allowed_extensions) : strip(y) # ""}},
                  d.rules)

\* profiles.load_profile: the profile of the file of that name;
\* path.read_text raises FileNotFoundError where there is none.
LoadProfile(name) ==
    /\ ops < MaxOps
    /\ profile_path(name) \in ProfileFiles
    /\ LET file == disk[profile_path(name)]
       IN  loaded' = IF file.exists
                     THEN <<[name |-> name, raised |-> FALSE, value |-> <<from_json_dict(file.text[1])>>]>>
                     ELSE <<[name |-> name, raised |-> TRUE, value |-> <<>>]>>
    /\ last_op' = "load"
    /\ before' = disk
    /\ ops' = ops + 1
    /\ UNCHANGED <<pack_vars, planner_vars, ui_vars, cat_vars, val_vars, scan_vars, disk, pdir, saved>>

\* The user removes a profile file.
RemoveFile(f) ==
    /\ ops < MaxOps
    /\ disk[f].exists
    /\ disk' = [disk EXCEPT ![f] = Absent]
    /\ last_op' = "remove"
    /\ before' = disk
    /\ ops' = ops + 1
    /\ saved' = <<>> /\ loaded' = <<>>
    /\ UNCHANGED <<pack_vars, planner_vars, ui_vars, cat_vars, val_vars, scan_vars, pdir>>

\* ----------------------------------------------------- profile store inputs
\* Profiles the editor saves: built-ins edited under their own name, one under
\* a name that differs from a built-in's by a character profile_path drops,
\* and a custom one.
Edited == {ProfileConfig("Game", <<"geo">>, {"psd", "fbx"},
                         ProfileRules(FALSE, TRUE, FALSE, TRUE)),
           ProfileConfig("Mobile", <<>>, {}, ProfileRules(TRUE, FALSE, TRUE, FALSE)),
           ProfileConfig("VFX!", <<"geo", "fx">>, {"vdb"}, AllOn),
           ProfileConfig("Custom", <<"geo">>, {"fbx"}, AllOn)}

\* What the editor builds from the extensions ". , png", and a profile that a
\* caller of save_profile did not normalise.
Given == {ProfileConfig("Custom", <<"tex", "geo">>, {"png", ""},
                        ProfileRules(TRUE, FALSE, TRUE, TRUE)),
          ProfileConfig("Custom", <<"geo/", " tex">>, {"FBX", ".png"}, AllOn)}

\* The names load_profile is asked for.
LoadNames == {"Game", "VFX", "VFX!", "Mobile", "Custom"}

\* The profile directory at the start: missing, seeded, or holding edited files.
ProfInit ==
    /\ disk \in [ProfileFiles -> {Absent} \cup {Stored(to_json_dict(e)) : e \in Edited}
                                 \cup {Stored(to_json_dict(default_profiles[n])) :
                                          n \in DOMAIN default_profiles}]
    /\ \A f \in ProfileFiles :
           disk[f].exists => profile_path(disk[f].text[1].name) = f
    /\ pdir \in {TRUE} \cup {\E f \in ProfileFiles : disk[f].exists}
    /\ last_op = "none" /\ before = disk /\ ops = 0
    /\ saved = <<>> /\ loaded = <<>>

NextProfiles ==
    \/ EnsureDefaultProfilesOnDisk
    \/ EnsureRaises
    \/ \E e \in Edited \cup Given : SaveProfile(e)
    \/ \E n \in LoadNames : LoadProfile(n)
    \/ \E f \in ProfileFiles : RemoveFile(f)

InitProfiles == PackIdle /\ PlannerIdle /\ UiIdle /\ CatIdle /\ ValIdle /\ ScanIdle /\ ProfInit

SpecProfiles == InitProfiles /\ [][NextProfiles]_vars

\* ---------------------------------------------------------------- front end
\* MainWindow and PackWorker (packager/ui/main_window.py): the click handlers
\* on the main thread, execute_pack on the worker thread, and the finished
\* signal queued between them.  Of the window the model follows the stored
\* plan, the enabled flags of the buttons and the worker; the result list, the
\* log and the snapshots kept for the manifest are left out.
MaxClicks == 3

\* sum(1 for i in issues if i.level.upper() == "ERROR"); the levels are ASCII
ErrCount(found) == Cardinality({k \in DOMAIN found : lower(found[k].level) = "error"})

Blocked_Never(found) == FALSE

\* `if err_count > 0`: Preview blocked due to errors
Blocked(found) == ErrCount(found) > 0

\* What a click on Preview works on: whether _require_paths gives paths,
\* whether the scan raises, the files it finds and the identity typed.
PreviewInput(paths, scan_ok, fl, p, a, v) ==
    [paths |-> paths, scan_ok |-> scan_ok, files |-> fl,
     project |-> p, asset |-> a, version |-> v]

\* The body of on_preview_clicked on input in: the plan it stores, the
\* arguments and the return of its build_pack_plan call if it makes one, and
\* the enabled flag of Export.
PreviewOutcome(in) ==
    IF ~in.paths \/ ~in.scan_ok
    THEN [last_plan |-> <<>>, export |-> btn.export, called |-> FALSE,
          project |-> project, asset |-> asset, version |-> version, built |-> built]
    ELSE LET p == strip(in.project)
             a == strip(in.asset)
             v == strip(in.version)
             r == build_pack_plan(in.files, "/out", p, a, v)
             ret == [done |-> TRUE, plan |-> r.plan, issues |-> r.issues]
         IN  IF Blocked(r.issues)
             THEN [last_plan |-> <<>>, export |-> btn.export, called |-> TRUE,
                   project |-> p, asset |-> a, version |-> v, built |-> ret]
             ELSE [last_plan |-> r.plan, export |-> TRUE, called |-> TRUE,
                   project |-> p, asset |-> a, version |-> v, built |-> ret]

\* The planner variables after a Preview with outcome o on input in.
PlannerAfter(in, o) ==
    /\ built' = o.built
    /\ files' = IF o.called THEN in.files ELSE files
    /\ output_root' = IF o.called THEN "/out" ELSE output_root
    /\ project' = o.project /\ asset' = o.asset /\ version' = o.version
    /\ UNCHANGED <<platform, cwd, validated>>

\* MainWindow.on_scan_clicked: drops the stored plan.
OnScanClicked ==
    /\ btn.scan /\ clicks < MaxClicks
    /\ last_plan' = <<>>
    /\ clicks' = clicks + 1
    /\ UNCHANGED <<pack_vars, planner_vars, cat_vars, val_vars, scan_vars, prof_vars,
                   btn, running, worker_plan, signals, emitted, cancel_at>>

\* MainWindow.on_preview_clicked
OnPreviewClicked(in) ==
    /\ btn.preview /\ clicks < MaxClicks
    /\ LET o == PreviewOutcome(in)
       IN  /\ last_plan' = o.last_plan
           /\ btn' = [btn EXCEPT !.export = o.export]
           /\ PlannerAfter(in, o)
    /\ clicks' = clicks + 1
    /\ UNCHANGED <<pack_vars, cat_vars, val_vars, scan_vars, prof_vars,
                   running, worker_plan, signals, emitted, cancel_at>>

\* The names the file system model has for a plan item's source and
\* destination: A_v001.fbx under geo and its destination, and one other file.
SrcName(it) == IF it.relpath = "geo/A_v001.fbx" THEN "a" ELSE "b"
DstName(it) == IF PathName(it.dst) = "A_v001.fbx" THEN "x" ELSE "y"

\* The plan as execute_pack sees it in the file system model.
WorkerPlan(pl) == [k \in DOMAIN pl |-> PlanItem(SrcName(pl[k]), DstName(pl[k]))]

LockButtons_PackageStays == Buttons(FALSE, FALSE, TRUE, FALSE, TRUE)

\* Cancel enabled; Scan, Preview, Package and Export disabled
LockButtons == Buttons(FALSE, FALSE, FALSE, FALSE, TRUE)

\* The tail of on_package_execute_clicked: a PackWorker on plan pl, with
\* overwrite=False, its flag clear, moved to a new thread that is started;
\* run() then enters execute_pack with verify_hash=True and hash_algo="sha1".
StartWorker(pl) ==
    /\ btn' = LockButtons
    /\ worker_plan' = pl
    /\ running' = running + 1
    /\ emitted' = 0
    /\ cancel_at' = NoCancel
    /\ plan' = WorkerPlan(pl)
    /\ overwrite' = FALSE /\ verify_hash' = TRUE /\ hash_algo' = "sha1"
    /\ cancelled' = FALSE
    /\ idx' = 1 /\ pc' = "Pending"
    /\ copied' = 0 /\ skipped' = 0 /\ failed' = 0
    /\ issues' = <<>>
    /\ hashes_by_src' = [s \in Srcs |-> NoHash]
    /\ src_hash' = NoHash
    /\ progress' = <<>>
    /\ st' = [i \in DOMAIN pl |-> "Pending"]
    /\ fault' = [i \in DOMAIN pl |-> "none"]
    /\ wrote' = {}
    /\ pre' = [copied |-> 0, skipped |-> 0, failed |-> 0, fs |-> fs]
    /\ UNCHANGED <<fs, dirs, signals>>

\* MainWindow.on_package_execute_clicked: Preview first if no plan is stored;
\* without a plan after that, a message box and nothing else.
OnPackageExecuteClicked(in) ==
    /\ btn.package /\ clicks < MaxClicks
    /\ clicks' = clicks + 1
    /\ IF last_plan # <<>>
       THEN /\ StartWorker(last_plan)
            /\ UNCHANGED <<last_plan, planner_vars>>
       ELSE LET o == PreviewOutcome(in)
            IN  /\ last_plan' = o.last_plan
                /\ PlannerAfter(in, o)
                /\ IF o.last_plan # <<>>
                   THEN StartWorker(o.last_plan)
                   ELSE /\ btn' = [btn EXCEPT !.export = o.export]
                        /\ UNCHANGED <<pack_vars, running, worker_plan, signals, emitted,
                                       cancel_at>>
    /\ UNCHANGED <<cat_vars, val_vars, scan_vars, prof_vars>>

\* MainWindow.on_cancel_clicked: PackWorker.cancel() sets the flag that
\* is_cancelled reads.  cancel_at notes, the first time, where the worker
\* was: whether an item that has not been started remains, the index of the
\* next item boundary, and how many items had been started.
OnCancelClicked ==
    /\ btn.cancel /\ clicks < MaxClicks
    /\ cancelled' = TRUE
    /\ cancel_at' = IF cancelled THEN cancel_at
                    ELSE [set |-> TRUE,
                          remain |-> pc \notin {"Done", "Raised"}
                                       /\ (IF pc = "Pending" THEN idx <= total ELSE idx < total),
                          boundary |-> IF pc = "Pending" THEN idx ELSE idx + 1,
                          started |-> Len(progress)]
    /\ clicks' = clicks + 1
    /\ UNCHANGED <<args, planner_vars, cat_vars, val_vars, scan_vars, prof_vars,
                   fs, dirs, idx, pc, copied, skipped, failed, issues, hashes_by_src,
                   src_hash, progress, st, fault, wrote, pre,
                   last_plan, btn, running, worker_plan, signals, emitted>>

\* PackWorker.run after execute_pack has returned:
\* self.finished.emit(summary, issues, hashes_by_src), queued to the main thread.
EmitFinished ==
    /\ running > 0 /\ pc = "Done" /\ emitted = 0
    /\ signals' = Append(signals, [summary |-> summary, issues |-> issues,
                                   hashes_by_src |-> hashes_by_src])
    /\ emitted' = emitted + 1
    /\ UNCHANGED <<pack_vars, planner_vars, cat_vars, val_vars, scan_vars, prof_vars,
                   last_plan, btn, running, worker_plan, cancel_at, clicks>>

ReleaseButtons_CancelStays == Buttons(TRUE, TRUE, TRUE, TRUE, TRUE)

\* Cancel disabled; Scan, Preview, Package and Export enabled
ReleaseButtons == Buttons(TRUE, TRUE, TRUE, TRUE, FALSE)

\* MainWindow._on_pack_finished, the slot of the finished signal; the thread
\* quits on the same signal.
OnPackFinished ==
    /\ signals # <<>>
    /\ btn' = ReleaseButtons
    /\ signals' = Tail(signals)
    /\ running' = running - 1
    /\ UNCHANGED <<pack_vars, planner_vars, cat_vars, val_vars, scan_vars, prof_vars,
                   last_plan, worker_plan, emitted, cancel_at, clicks>>

\* A step of execute_pack on the worker thread.
WorkerStep ==
    \/ LoopHead
    \/ SrcCheck
    \/ HashSrc
    \/ MkDir
    \/ DstCheck
    \/ Copy
    \/ Verify
    \/ Return

\* ----------------------------------------------------------- front-end inputs
\* Two files that plan without a collision, two that collide, an identity
\* that fails validation, an empty scan, missing paths and a scan that raises.
PreviewInputs ==
    {PreviewInput(TRUE, TRUE, <<ScanFile("geo/A_v001.fbx"), ScanFile("docs/readme.md")>>,
                  "Proj", "CrateA", " v001 "),
     PreviewInput(TRUE, TRUE, <<ScanFile("docs/readme.md")>>, "Proj", "CrateA", "V0012"),
     PreviewInput(TRUE, TRUE, <<ScanFile("geo/A_v001.fbx"), ScanFile("export/A_v001.fbx")>>,
                  "Proj", "CrateA", "v001"),
     PreviewInput(TRUE, TRUE, <<ScanFile("geo/A_v001.fbx")>>, "Proj", " ", "v01"),
     PreviewInput(TRUE, TRUE, <<>>, "Proj", "CrateA", "v001"),
     PreviewInput(FALSE, TRUE, <<>>, "Proj", "CrateA", "v001"),
     PreviewInput(TRUE, FALSE, <<>>, "Proj", "CrateA", "v001")}

\* The window as constructed, over a file system in which the sources exist
\* or not and the destinations exist or not; no pack run yet.
UiInit ==
    /\ plan = <<>> /\ overwrite = FALSE /\ verify_hash = TRUE /\ hash_algo = "sha1"
    /\ InitFs
    /\ dirs = {d \in Dsts : exists(fs[d])}
    /\ cancelled = FALSE
    /\ idx = 1 /\ pc = "Done"
    /\ copied = 0 /\ skipped = 0 /\ failed = 0
    /\ issues = <<>>
    /\ hashes_by_src = [s \in Srcs |-> NoHash]
    /\ src_hash = NoHash
    /\ progress = <<>>
    /\ st = <<>> /\ fault = <<>> /\ wrote = {}
    /\ pre = [copied |-> 0, skipped |-> 0, failed |-> 0, fs |-> fs]
    /\ UiIdle

NextUI ==
    \/ OnScanClicked
    \/ \E in \in PreviewInputs : OnPreviewClicked(in)
    \/ \E in \in PreviewInputs : OnPackageExecuteClicked(in)
    \/ OnCancelClicked
    \/ WorkerStep
    \/ EmitFinished
    \/ OnPackFinished

InitUI == UiInit /\ PlannerIdle /\ CatIdle /\ ValIdle /\ ScanIdle /\ ProfIdle

SpecUI == InitUI /\ [][NextUI]_vars

\* The worker thread runs while it has a step to take, and the event loop of
\* the main thread delivers a queued signal.
SpecUILive ==
    /\ SpecUI
    /\ WF_vars(WorkerStep)
    /\ WF_vars(EmitFinished)
    /\ WF_vars(OnPackFinished)

\* ------------------------------------------------- reading a run's outcome
IssuesOf(i) == {k \in DOMAIN issues : issues[k].message = i}
ErrorsOf(i) == {k \in IssuesOf(i) : issues[k].level = "ERROR"}
WithCode(c) == {k \in DOMAIN issues : issues[k].code = c}
CancelledRun == WithCode("PACK_CANCELLED") # {}
Returned == pc = "Done"

\* Item idx-1 has just been finished and pre is the snapshot taken when it began.
last == idx - 1
JustFinished == idx > 1 /\ pc \in {"Pending", "Done"}

\* Post-copy verification failures: the items counted as copied and as failed.
VerifyFailures == WithCode("HASH_DST_FAILED") \cup WithCode("HASH_MISMATCH")

Untouched(i) ==
    /\ st[i] = "Pending"
    /\ i \notin wrote
    /\ \A j \in DOMAIN progress : progress[j][1] # i

\* The boundary step under a set cancel flag: one warning, then return.
StopsAtBoundary ==
    [][(pc = "Pending" /\ idx <= total /\ cancelled) =>
         /\ pc' = "Done"
         /\ issues' = Append(issues,
                ValidationResult("WARNING", "PACK_CANCELLED", idx, item.relpath))
         /\ UNCHANGED <<fs, copied, skipped, failed, hashes_by_src, progress, st, wrote>>]_vars

\* C1 as stated: a run cancelled at the boundary after k = idx-1 of n items
\* returns copied + skipped + failed <= k, exactly one PACK_CANCELLED warning,
\* and items k+1..n neither hashed, copied nor reported.
C1_Original ==
    (Returned /\ CancelledRun) =>
        /\ idx <= total
        /\ copied + skipped + failed <= idx - 1
        /\ Cardinality(WithCode("PACK_CANCELLED")) = 1
        /\ \A k \in WithCode("PACK_CANCELLED") : issues[k].level = "WARNING"
        /\ \A i \in idx..total : Untouched(i)

\* C1 amended: the counters sum to at most k plus the number of post-copy
\* verification failures among the k processed items (such an item is counted
\* both as copied and as failed); the rest of the claim stands.
C1_Result ==
    (Returned /\ CancelledRun) =>
        /\ idx <= total
        /\ copied + skipped + failed <= (idx - 1) + Cardinality(VerifyFailures)
        /\ Cardinality(WithCode("PACK_CANCELLED")) = 1
        /\ \A k \in WithCode("PACK_CANCELLED") :
              issues[k].level = "WARNING" /\ k = Len(issues)
        /\ \A i \in idx..total : Untouched(i)

\* C1 (amended): cancellation seen at an item boundary stops the run there
\* with the result above.
C1_Amended == []C1_Result /\ StopsAtBoundary

C1_Witness ==
    /\ Returned /\ CancelledRun
    /\ idx = 2 /\ total > 1
    /\ copied + skipped + failed = 2

\* ---------------------------------------------------------------------- C2
HashSucceeded(i) ==
    /\ verify_hash
    /\ \/ i < idx /\ st[i] \notin {"Missing", "HashFailed"}
       \/ i = idx /\ pc \in {"MkDir", "DstCheck", "Copying", "Verifying"}

\* C2: under verify_hash, every item whose source exists and whose source hash
\* succeeded has its source path mapped to that digest in hashes_by_src, at
\* every later point of the run and in the returned map, whatever the item's
\* end (directory failure, skip, copy failure, verification failure).
C2_HashRecorded ==
    \A i \in 1..total :
        HashSucceeded(i) =>
            hashes_by_src[plan[i].src] = hash_file(fs[plan[i].src], hash_algo)

C2_Witness ==
    /\ Returned /\ verify_hash /\ total = 2
    /\ st[1] \in {"Skipped", "DirError", "CopyFailed"}
    /\ st[2] = "VerifyFailed"
    /\ plan[1].src # plan[2].src

\* ---------------------------------------------------------------------- C3
LooksIdentical(s, d) == st_size(s) = st_size(d) /\ int_mtime(s) = int_mtime(d)

SkippedUnwritten ==
    /\ skipped = pre.skipped + 1
    /\ copied = pre.copied
    /\ failed = pre.failed
    /\ fs[plan[last].dst] = pre.fs[plan[last].dst]
    /\ last \notin wrote
    /\ IF LooksIdentical(pre.fs[plan[last].src], pre.fs[plan[last].dst])
       THEN IssuesOf(last) = {}
       ELSE /\ Cardinality(IssuesOf(last)) = 1
            /\ \A k \in IssuesOf(last) :
                  issues[k].level = "WARNING" /\ issues[k].code = "DST_EXISTS_SKIPPED"

\* C3 as stated: with overwrite=false every item whose destination already
\* exists is skipped (skipped + 1, copied and failed unchanged, destination
\* unchanged, DST_EXISTS_SKIPPED iff it does not look identical).
C3_Original ==
    (JustFinished /\ ~overwrite /\ exists(pre.fs[plan[last].dst])) => SkippedUnwritten

\* C3 amended: the same, for an item that reaches the destination check: its
\* source exists and, under verify_hash, its source hash succeeded.
C3_Amended ==
    (/\ JustFinished /\ ~overwrite /\ exists(pre.fs[plan[last].dst])
     /\ exists(pre.fs[plan[last].src])
     /\ fault[last] # "hash_src") => SkippedUnwritten

C3_Witness ==
    /\ JustFinished /\ ~overwrite /\ total = 2 /\ last = 2
    /\ st[1] = "Skipped" /\ st[2] = "Skipped"
    /\ IssuesOf(1) = {} /\ IssuesOf(2) # {}

\* ---------------------------------------------------------------------- C4
CopiedButDiffers ==
    /\ JustFinished /\ verify_hash
    /\ st[last] \in {"Verified", "VerifyFailed"}
    /\ fault[last] # "hash_dst"
    /\ hash_file(fs[plan[last].dst], hash_algo) # hash_file(pre.fs[plan[last].src], hash_algo)

\* C4: under verify_hash, an item that was copied and whose destination digest
\* differs from its source digest yields exactly one finding, the ERROR
\* HASH_MISMATCH, and failed + 1, while copied keeps the + 1 of the copy.
C4_MismatchCountedTwice ==
    CopiedButDiffers =>
        /\ Cardinality(IssuesOf(last)) = 1
        /\ \A k \in IssuesOf(last) :
              issues[k].level = "ERROR" /\ issues[k].code = "HASH_MISMATCH"
        /\ failed = pre.failed + 1
        /\ copied = pre.copied + 1
        /\ skipped = pre.skipped
        /\ st[last] = "VerifyFailed"

C4_Witness == CopiedButDiffers /\ copied = 1 /\ failed = 1 /\ Returned /\ ~CancelledRun

\* ---------------------------------------------------------------------- C5
FailCodes == {"SRC_MISSING", "HASH_SRC_FAILED", "DST_DIR_CREATE_FAILED",
              "COPY_FAILED", "HASH_DST_FAILED", "HASH_MISMATCH"}

CodesOfState(s) ==
    CASE s = "Missing" -> {"SRC_MISSING"}
      [] s = "HashFailed" -> {"HASH_SRC_FAILED"}
      [] s = "DirError" -> {"DST_DIR_CREATE_FAILED"}
      [] s = "CopyFailed" -> {"COPY_FAILED"}
      [] s = "VerifyFailed" -> {"HASH_DST_FAILED", "HASH_MISMATCH"}
      [] OTHER -> {}

AllErrors == {k \in DOMAIN issues : issues[k].level = "ERROR"}

C5_Inv ==
    /\ \A k \in AllErrors : issues[k].code \in FailCodes
    /\ \A k \in DOMAIN issues : issues[k].code \in FailCodes => issues[k].level = "ERROR"
    /\ failed = Cardinality(AllErrors)
    /\ \A i \in 1..total :
          /\ Cardinality(ErrorsOf(i)) <= 1
          /\ (st[i] \in FailStates) <=> (ErrorsOf(i) # {})
          /\ \A k \in ErrorsOf(i) : issues[k].code \in CodesOfState(st[i])
          /\ i < idx => st[i] \in Terminal
          /\ i > idx => st[i] = "Pending"
    /\ (Returned /\ ~CancelledRun) => idx = total + 1

\* A failure abandons the item and moves on to the next one; a finished item
\* is never taken up again.
C5_Step ==
    [][/\ failed' # failed =>
            /\ failed' = failed + 1
            /\ Len(issues') = Len(issues) + 1
            /\ idx' = idx + 1 /\ pc' = "Pending"
       /\ idx' \in {idx, idx + 1}
       /\ \A i \in 1..total : i < idx => st'[i] = st[i]]_vars

\* C5: every per-item failure is one ERROR finding for that item and one
\* increment of failed, the item is not retried, and a run that is not
\* cancelled goes on to process every item of the plan.
C5_NoFailFast == []C5_Inv /\ C5_Step

C5_Witness ==
    /\ Returned /\ ~CancelledRun /\ total = 2
    /\ st[1] \in FailStates /\ st[2] \in Terminal \ FailStates

\* ---------------------------------------------------------------------- C6
InBody == pc \in {"SrcCheck", "Hashing", "MkDir", "DstCheck", "Copying", "Verifying", "Raised"}
Started == IF InBody THEN idx ELSE idx - 1

C6_Inv ==
    /\ Len(progress) = Started
    /\ \A j \in DOMAIN progress : progress[j] = <<j, total, plan[j]>>
    /\ \A i \in 1..total :
          (st[i] # "Pending" \/ i \in wrote) => i <= Len(progress)

\* progress_cb is called in the step that opens an item, before anything is
\* read or written for it.
C6_Step ==
    [][progress' # progress =>
          /\ pc = "Pending" /\ ~cancelled /\ pc' = "SrcCheck"
          /\ st[idx] = "Pending"
          /\ UNCHANGED <<fs, hashes_by_src, copied, skipped, failed, issues, st, idx>>]_vars

\* C6: items are processed in plan order; progress_cb(i, len(plan), plan[i]) is
\* called once per processed item, i = 1, 2, ..., before the item's source
\* check, hash or copy, and not for the item at which the run was cancelled
\* nor any after it.
C6_ProgressOrder == []C6_Inv /\ C6_Step

C6_Witness ==
    /\ Returned /\ CancelledRun /\ total = 2
    /\ Len(progress) = 1 /\ progress[1] = <<1, 2, plan[1]>>

\* ---------------------------------------------------------------------- C7
\* C7: an item whose source exists, whose destination does not exist (or
\* exists under overwrite=true) and whose I/O all succeeds is copied: the
\* destination then exists with the source's bytes, copied + 1, no ERROR for
\* the item.
C7_Copied ==
    (/\ JustFinished
     /\ exists(pre.fs[plan[last].src])
     /\ (~exists(pre.fs[plan[last].dst]) \/ overwrite)
     /\ fault[last] = "none") =>
        /\ exists(fs[plan[last].dst])
        /\ fs[plan[last].dst].data = fs[plan[last].src].data
        /\ copied = pre.copied + 1
        /\ skipped = pre.skipped /\ failed = pre.failed
        /\ ErrorsOf(last) = {}
        /\ st[last] = IF verify_hash THEN "Verified" ELSE "Copied"

C7_Witness ==
    /\ JustFinished /\ overwrite /\ fault[last] = "none"
    /\ exists(pre.fs[plan[last].dst])
    /\ pre.fs[plan[last].dst].data # fs[plan[last].src].data
    /\ st[last] = "Verified"

\* ---------------------------------------------------------------------- C8
Blank(s) == \A i \in 1..Len(s) : IsSpace(CharAt(s, i))

\* 'v' or 'V' followed by 3 or 4 digits, and nothing else
FullMatch(v) ==
    /\ Len(v) \in {4, 5}
    /\ CharAt(v, 1) \in {"v", "V"}
    /\ \A i \in 2..Len(v) : IsDigit(CharAt(v, i))

BadIdentityAsGiven ==
    Blank(project) \/ Blank(asset) \/ Blank(version) \/ ~FullMatch(version)

BadIdentity ==
    Blank(project) \/ Blank(asset) \/ Blank(version) \/ ~FullMatch(strip(version))

\* C8 as stated: build_pack_plan returns an empty plan and an ERROR whenever
\* project, asset or version is blank or the version as given is not a
\* full-string match of v + 3..4 digits; otherwise validate_pack_inputs
\* returns no ERROR.
C8_Original ==
    /\ (built.done /\ BadIdentityAsGiven) => (built.plan = <<>> /\ HasError(built.issues))
    /\ (validated.done /\ ~BadIdentityAsGiven) => ~HasError(validated.results)

\* C8 amended: the version is matched after surrounding whitespace is
\* trimmed; an identity is rejected exactly when project, asset or version is
\* blank or the trimmed version is not v + 3..4 digits.
C8_Amended ==
    /\ (built.done /\ BadIdentity) => (built.plan = <<>> /\ HasError(built.issues))
    /\ validated.done => (BadIdentity <=> HasError(validated.results))
    /\ (built.done /\ ~BadIdentity) => Len(built.plan) = Len(files)

C8_Witness ==
    /\ built.done /\ validated.done
    /\ ~Blank(project) /\ ~Blank(asset) /\ version = "v00001"
    /\ files # <<>> /\ built.plan = <<>>
    /\ HasError(built.issues) /\ HasError(validated.results)

\* ---------------------------------------------------------------------- C9
\* The categories the planner tests expect.
TestCategory(rel) ==
    CASE rel = "geo/A_v001.fbx" -> "export/fbx"
      [] rel = "tex/A_v001_diffuse.png" -> "textures"
      [] rel = "source/maya/A_v001.ma" -> "source/maya"
      [] rel = "docs/readme.md" -> "docs"
      [] OTHER -> "export/fbx"

AbsoluteRoot ==
    IF CharAt(output_root, 1) = "/" THEN output_root ELSE cwd \o "/" \o output_root

OneItemPerFile(root, p, a, v) ==
    /\ Len(built.plan) = Len(files)
    /\ \A i \in DOMAIN files :
          LET it == built.plan[i]
              parts == split(files[i].path, "/")
          IN  /\ it.src = files[i].path
              /\ it.relpath = files[i].relpath
              /\ it.category = category_for_file(files[i])
              /\ files[i] \in Pool => it.category = TestCategory(files[i].relpath)
              /\ it.dst = root \o "/" \o p \o "/" \o a \o "/" \o v \o "/"
                              \o it.category \o "/" \o parts[Len(parts)]

\* C9 as stated: for a valid identity the plan has one item per file, in
\* order, with the file's paths, its category, and the destination
\* outputRoot/project/asset/version/<category>/<fileBaseName>.
C9_Original ==
    (built.done /\ ~BadIdentity) => OneItemPerFile(output_root, project, asset, version)

\* C9 amended: the destination is built from the output root made absolute
\* (a relative root is taken from the working directory) and from project,
\* asset and version with surrounding whitespace trimmed.
C9_Amended ==
    (built.done /\ ~BadIdentity) =>
        OneItemPerFile(AbsoluteRoot, strip(project), strip(asset), strip(version))

C9_Witness ==
    /\ built.done /\ ~BadIdentity
    /\ Len(built.plan) = 3
    /\ output_root = "out" /\ project = " Proj"
    /\ \E i, j \in DOMAIN built.plan : built.plan[i].category # built.plan[j].category

\* --------------------------------------------------------------------- C10
RECURSIVE LowerDsts(_)
LowerDsts(pl) == IF pl = <<>> THEN <<>> ELSE <<lower(Head(pl).dst)>> \o LowerDsts(Tail(pl))

RECURSIVE PlainDsts(_)
PlainDsts(pl) == IF pl = <<>> THEN <<>> ELSE <<Head(pl).dst>> \o PlainDsts(Tail(pl))

\* The first positions of the keys that two or more plan items share.
GroupHeads(keys) ==
    {i \in DOMAIN keys :
        /\ \A j \in 1..(i - 1) : keys[j] # keys[i]
        /\ \E j \in (i + 1)..Len(keys) : keys[j] = keys[i]}

Min(a, b) == IF a < b THEN a ELSE b

IssuesWithCode(c) == {k \in DOMAIN built.issues : built.issues[k].code = c}

CollisionsReported(keys) ==
    LET heads == GroupHeads(keys)
        n == Cardinality(heads)
        \* the heads of the first CollisionCap groups
        early == {h \in heads : Cardinality({g \in heads : g < h}) < CollisionCap}
    IN  /\ Len(built.plan) = Len(files)
        /\ Cardinality(IssuesWithCode("DEST_COLLISION")) = Min(n, CollisionCap)
        /\ \A h \in early :
              Cardinality({k \in IssuesWithCode("DEST_COLLISION") :
                  /\ built.issues[k].relpath = built.plan[h].relpath
                  /\ built.issues[k].message = built.plan[h].dst
                  /\ built.issues[k].level = "ERROR"}) = 1
        /\ IF n > CollisionCap
           THEN /\ Cardinality(IssuesWithCode("DEST_COLLISION_MORE")) = 1
                /\ \A k \in IssuesWithCode("DEST_COLLISION_MORE") :
                      /\ built.issues[k].level = "ERROR"
                      /\ built.issues[k].message = ToString(n - CollisionCap)
                      /\ k = Len(built.issues)
           ELSE IssuesWithCode("DEST_COLLISION_MORE") = {}

\* C10 as stated: destinations are grouped by a case-insensitive key; each of
\* the first 25 groups of two or more items gets one DEST_COLLISION ERROR,
\* the groups beyond get one aggregate ERROR with their number, and the plan
\* keeps one item per file.
C10_Original ==
    (built.done /\ ~BadIdentity) => CollisionsReported(LowerDsts(built.plan))

\* C10 amended: the key is os.path.normcase of the destination, which is
\* case-insensitive on Windows and case-sensitive on POSIX.
C10_Amended ==
    (built.done /\ ~BadIdentity) =>
        CollisionsReported(IF platform = "nt" THEN LowerDsts(built.plan)
                           ELSE PlainDsts(built.plan))

C10_Witness ==
    /\ built.done
    /\ Cardinality(GroupHeads(PlainDsts(built.plan))) = CollisionCap + 1
    /\ \E k \in DOMAIN built.issues : built.issues[k].code = "DEST_COLLISION_MORE"

\* --------------------------------------------------------------------- C11
Categories == {"textures", "docs", "source/maya", "source/max", "source/other",
               "export/fbx", "export/abc", "export/usd", "export/obj", "export/gltf",
               "other"}

IsSep(c) == c \in {"/", "\\"}

\* rel has a segment equal to name in some letter case: name stands between
\* separators or the ends of rel.
HasSegment(rel, name) ==
    \E i \in 1..Len(rel) :
        LET j == i + Len(name) - 1
        IN  /\ j <= Len(rel)
            /\ lower(SubSeq(rel, i, j)) = name
            /\ i = 1 \/ IsSep(CharAt(rel, i - 1))
            /\ j = Len(rel) \/ IsSep(CharAt(rel, j + 1))

TexHint == HasSegment(cat_rel, "tex") \/ HasSegment(cat_rel, "textures")
DocHint == HasSegment(cat_rel, "docs") \/ HasSegment(cat_rel, "doc")
SourceHint == HasSegment(cat_rel, "source")

\* C11: _category_for_file is total: every (relpath, ext) pair gets one
\* non-empty category of the fixed set; and a folder hint in any segment of the
\* relative path (tex/textures, then docs/doc, then source) decides the
\* category before the extension is looked at.
C11_Categorize ==
    cat_out # NoCategory =>
        /\ cat_out \in Categories /\ cat_out # ""
        /\ cat_out = category_for_file([relpath |-> cat_rel, ext |-> cat_ext])
        /\ TexHint => cat_out = "textures"
        /\ ~TexHint /\ DocHint => cat_out = "docs"
        /\ ~TexHint /\ ~DocHint /\ SourceHint =>
               cat_out \in {"source/maya", "source/max", "source/other"}

\* A file under Textures/ with an export extension, categorised by the folder.
C11_Witness == cat_rel = "Textures/A_v001.fbx" /\ cat_ext = "fbx" /\ cat_out = "textures"

\* ---------------------------------------------- reading validate's result
Findings == v_results.results
Validated == v_results.done /\ v_top.readable

\* how many findings carry this code and this relpath
CountOf(code, rel) ==
    Cardinality({k \in DOMAIN Findings : Findings[k].code = code /\ Findings[k].relpath = rel})

CodesIn(res) == {res[k].code : k \in DOMAIN res}

SPACE_CODES == {"SPACE_IN_DIRNAME", "SPACE_IN_FILENAME", "SPACE_IN_PATH"}
VERSION_CODES == {"VERSION_TOKEN_MISSING"}
EXTENSION_CODES == {"UNSUPPORTED_EXTENSION", "NO_EXTENSION_FILES"}

\* res without the findings of the given codes
Without(res, codes) == SelectSeq(res, LAMBDA r : r.code \notin codes)

\* validate's answer to the same call under other rule toggles
UnderRules(r) ==
    validate_delivery(v_top, v_files, v_summary, [profile EXCEPT !.rules = r])

\* --------------------------------------------------------------------- C12
\* C12: each rule block of validate follows its own toggle: no SPACE_IN_*
\* finding with enforce_no_spaces off, no VERSION_TOKEN_MISSING with
\* warn_missing_version_token off, no UNSUPPORTED_EXTENSION or
\* NO_EXTENSION_FILES with warn_unsupported_extensions off; and switching one
\* toggle off leaves the findings of the other rules as they are.
C12_Toggles ==
    Validated =>
        /\ ~profile.rules.enforce_no_spaces => CodesIn(Findings) \cap SPACE_CODES = {}
        /\ ~profile.rules.warn_missing_version_token =>
               CodesIn(Findings) \cap VERSION_CODES = {}
        /\ ~profile.rules.warn_unsupported_extensions =>
               CodesIn(Findings) \cap EXTENSION_CODES = {}
        /\ Without(UnderRules([profile.rules EXCEPT !.enforce_no_spaces = FALSE]),
                   SPACE_CODES) = Without(Findings, SPACE_CODES)
        /\ Without(UnderRules([profile.rules EXCEPT !.warn_missing_version_token = FALSE]),
                   VERSION_CODES) = Without(Findings, VERSION_CODES)
        /\ Without(UnderRules([profile.rules EXCEPT !.warn_unsupported_extensions = FALSE]),
                   EXTENSION_CODES) = Without(Findings, EXTENSION_CODES)

\* --------------------------------------------------------------------- C13
MissingLevel == IF profile.rules.error_missing_required_folders THEN "ERROR" ELSE "WARNING"

MissingFindings(req) ==
    {k \in DOMAIN Findings : /\ Findings[k].code = "REQ_FOLDER_MISSING"
                             /\ Findings[k].relpath = req \o "/"}

\* C13: validate reports every required folder that is not an immediate
\* subdirectory of the input root exactly once, as an ERROR when
\* error_missing_required_folders is on and as a WARNING when it is off, and
\* reports no required folder that is present.
C13_RequiredFolders ==
    Validated =>
        \A i \in DOMAIN profile.required_folders :
            LET req == profile.required_folders[i]
            IN  IF req \in v_top.dirs THEN MissingFindings(req) = {}
                ELSE /\ Cardinality(MissingFindings(req)) = 1
                     /\ \A k \in MissingFindings(req) : Findings[k].level = MissingLevel

\* --------------------------------------------------------------------- C14
\* a segment of rel before the last one contains a space
SpaceInParent(rel) ==
    LET parts == split(rel, "/")
    IN  \E i \in 1..(Len(parts) - 1) : HasSpace(parts[i])

\* C14: with enforce_no_spaces on, validate reports a file under
\* SPACE_IN_FILENAME exactly when its base name contains a space, under
\* SPACE_IN_PATH exactly when its base name has none and a parent segment of its
\* relative path has one, and so under at most one of the two codes.
C14_OneSpaceFinding ==
    Validated /\ profile.rules.enforce_no_spaces =>
        \A i \in DOMAIN v_files :
            LET f == v_files[i]
                in_name == CountOf("SPACE_IN_FILENAME", f.relpath)
                in_path == CountOf("SPACE_IN_PATH", f.relpath)
            IN  /\ in_name = (IF HasSpace(f.name) THEN 1 ELSE 0)
                /\ in_path = (IF ~HasSpace(f.name) /\ SpaceInParent(f.relpath) THEN 1 ELSE 0)
                /\ in_name + in_path <= 1

\* A file with a space in its folder and in its name is reported once, by name,
\* next to a file with a space in its folder only.
C14_Witness ==
    /\ Validated /\ profile.rules.enforce_no_spaces
    /\ v_files = <<ScanFile("my dir/c d"), ScanFile("my dir/B_v0012.psd")>>
    /\ CountOf("SPACE_IN_FILENAME", "my dir/c d") = 1
    /\ CountOf("SPACE_IN_PATH", "my dir/c d") = 0
    /\ CountOf("SPACE_IN_PATH", "my dir/B_v0012.psd") = 1

\* --------------------------------------------------------------------- C15
WithVCode(code) == {k \in DOMAIN Findings : Findings[k].code = code}

Buckets == {v_summary[k] : k \in DOMAIN v_summary}

Disallowed == {b \in Buckets : b.ext # "" /\ b.ext \notin profile.allowed_extensions}

\* C15: with warn_unsupported_extensions on, validate emits one
\* UNSUPPORTED_EXTENSION WARNING for every non-empty extension of the summary
\* that the profile does not allow, whatever the number of files in the bucket,
\* none for an allowed extension, and one NO_EXTENSION_FILES WARNING when the
\* summary has the empty extension, allowed or not.
C15_OnePerBucket ==
    Validated /\ profile.rules.warn_unsupported_extensions =>
        /\ \A b \in Disallowed :
               Cardinality({k \in WithVCode("UNSUPPORTED_EXTENSION") :
                               /\ Findings[k].message = Bucket(b.ext, b.count)
                               /\ Findings[k].level = "WARNING"}) = 1
        /\ Cardinality(WithVCode("UNSUPPORTED_EXTENSION")) = Cardinality(Disallowed)
        /\ Cardinality(WithVCode("NO_EXTENSION_FILES"))
               = (IF \E b \in Buckets : b.ext = "" THEN 1 ELSE 0)
        /\ \A k \in WithVCode("NO_EXTENSION_FILES") : Findings[k].level = "WARNING"

\* Two psd files that the profile does not allow: one finding for the bucket.
C15_Witness ==
    /\ Validated /\ profile.rules.warn_unsupported_extensions
    /\ \E b \in Disallowed : b.ext = "psd" /\ b.count = 2
    /\ Cardinality(WithVCode("UNSUPPORTED_EXTENSION")) = 1

\* --------------------------------------------------------------------- C16
\* C16: when the input root cannot be listed validate returns the single
\* finding ROOT_UNREADABLE (ERROR); otherwise its result holds exactly one
\* PROFILE_ACTIVE finding (INFO), which names the profile and comes last.
C16_FixedTail ==
    v_results.done =>
        IF ~v_top.readable
        THEN /\ Len(Findings) = 1
             /\ Findings[1].code = "ROOT_UNREADABLE" /\ Findings[1].level = "ERROR"
        ELSE /\ Cardinality(WithVCode("PROFILE_ACTIVE")) = 1
             /\ Findings # <<>>
             /\ Findings[Len(Findings)].code = "PROFILE_ACTIVE"
             /\ Findings[Len(Findings)].level = "INFO"
             /\ Findings[Len(Findings)].message = profile.name

\* A result with findings of several rules, closed by PROFILE_ACTIVE.
C16_Witness ==
    /\ Validated /\ profile.name = "Game"
    /\ Len(Findings) >= 4
    /\ Findings[Len(Findings)].code = "PROFILE_ACTIVE"
    /\ Findings[1].code = "REQ_FOLDER_MISSING"

\* --------------------------------------------------- reading a scan's result
ScanDone == s_pc = "Done"

RECURSIVE SumCounts(_)
\* the sum of the counts of a histogram given as a list of buckets
SumCounts(items) == IF items = <<>> THEN 0 ELSE Head(items).count + SumCounts(Tail(items))

\* the sum of the values of a dict
SumValues(counts) == SumCounts(SortedItems(counts, DOMAIN counts))

WithExt(e) == {i \in DOMAIN s_files : s_files[i].ext = e}

\* --------------------------------------------------------------------- C17
\* C17: in the result of a scan the counts of the extension histogram sum to
\* total_files, total_files is the length of the returned file list, and the
\* extension of every returned file is the key of exactly one bucket, whose
\* count is the number of returned files with that extension.  The dict the
\* walk builds keeps the same sum after every directory.
C17_Histogram ==
    /\ SumValues(ext_counts) = Len(s_files)
    /\ ScanDone =>
        /\ SumCounts(scanned.extensions) = scanned.total_files
        /\ scanned.total_files = Len(s_files)
        /\ \A i \in DOMAIN s_files :
               LET mine == {k \in DOMAIN scanned.extensions :
                               scanned.extensions[k].ext = s_files[i].ext}
               IN  /\ Cardinality(mine) = 1
                   /\ \A k \in mine :
                          scanned.extensions[k].count = Cardinality(WithExt(s_files[i].ext))

\* A scan that returns files of three extensions, two of them sharing one.
C17_Witness ==
    /\ ScanDone
    /\ Len(scanned.extensions) >= 3
    /\ \E k \in DOMAIN scanned.extensions :
           scanned.extensions[k].ext = "fbx" /\ scanned.extensions[k].count >= 2
    /\ \E k \in DOMAIN scanned.extensions : scanned.extensions[k].ext = ""

\* --------------------------------------------------------------------- C18
\* a directory of this name is not to be entered
Excluded(name) ==
    \/ name \in ignore_dirs
    \/ ignore_hidden /\ name # "" /\ SubSeq(name, 1, 1) = "."

\* a file of this name is not to be returned
Hidden(name) == ignore_hidden /\ name # "" /\ SubSeq(name, 1, 1) = "."

RECURSIVE Visible(_, _)
\* The files of the tree under node that lie under no excluded directory and
\* are not hidden, as [relpath, size].
Visible(node, prefix) ==
    {[relpath |-> prefix \o node.files[k].name,
      size |-> IF node.files[k].size = NoStat THEN 0 ELSE node.files[k].size] :
        k \in {j \in DOMAIN node.files : ~Hidden(node.files[j].name)}}
    \cup UNION {Visible(node.dirs[k], prefix \o node.dirs[k].name \o "/") :
                   k \in {j \in DOMAIN node.dirs : ~Excluded(node.dirs[j].name)}}

RECURSIVE VisibleDirs(_, _)
\* The directories under node, and node itself, that lie under no excluded
\* directory and are not excluded, by relative path.
VisibleDirs(node, prefix) ==
    {prefix}
    \cup UNION {VisibleDirs(node.dirs[k], prefix \o node.dirs[k].name \o "/") :
                   k \in {j \in DOMAIN node.dirs : ~Excluded(node.dirs[j].name)}}

RECURSIVE AllDirs(_, _)
AllDirs(node, prefix) ==
    {prefix} \cup UNION {AllDirs(node.dirs[k], prefix \o node.dirs[k].name \o "/") :
                            k \in DOMAIN node.dirs}

RECURSIVE SumSizes(_)
SumSizes(S) ==
    IF S = {} THEN 0 ELSE LET x == CHOOSE y \in S : TRUE IN x.size + SumSizes(S \ {x})

\* the directory segments of a relative path
Parents(rel) == LET parts == split(rel, "/") IN {parts[i] : i \in 1..(Len(parts) - 1)}

\* C18: scan_folder returns no file under a directory whose name is in
\* ignore_dirs or, with ignore_hidden, starts with '.', and with ignore_hidden no
\* file whose base name starts with '.'; the returned files, total_files,
\* total_dirs, total_bytes and the histogram are those of the tree without the
\* pruned directories and everything below them.
C18_Pruned ==
    /\ \A i \in DOMAIN s_files :
           /\ \A d \in Parents(s_files[i].relpath) : ~Excluded(d)
           /\ ~Hidden(s_files[i].name)
    /\ ScanDone =>
        /\ {[relpath |-> s_files[i].relpath, size |-> s_files[i].size_bytes] :
               i \in DOMAIN s_files} = Visible(tree, "")
        /\ scanned.total_files = Cardinality(Visible(tree, ""))
        /\ scanned.total_dirs = Cardinality(VisibleDirs(tree, ""))
        /\ scanned.total_bytes = SumSizes(Visible(tree, ""))
        /\ SumCounts(scanned.extensions) = Cardinality(Visible(tree, ""))

\* A scan over a tree with .git, node_modules at two depths and a hidden
\* directory and file, all of them left out, that still returns files.
C18_Witness ==
    /\ ScanDone
    /\ ignore_hidden /\ ignore_dirs = {"node_modules"}
    /\ Cardinality(AllDirs(tree, "")) = 7
    /\ scanned.total_dirs = 3
    /\ scanned.total_files = 4

\* --------------------------------------------------------------------- C19
DefaultPaths == {profile_path(DefaultNames[i]) : i \in DOMAIN DefaultNames}

EditedGame == Stored(to_json_dict(CHOOSE e \in Edited : e.name = "Game"))

\* C19: ensure_default_profiles_on_disk never overwrites: once it has returned
\* there is a file for each of Game, VFX and Mobile, every file that was there
\* before the call has the content it had, edited or not, no other file has
\* appeared, and one more call would leave every file as it is.  A call that
\* raises has not touched an existing file either.
C19_NeverOverwrites ==
    /\ last_op \in {"ensure", "ensure_raised"} =>
           \A f \in ProfileFiles : before[f].exists => disk[f] = before[f]
    /\ last_op = "ensure" =>
        /\ \A f \in DefaultPaths : disk[f].exists
        /\ \A f \in ProfileFiles \ DefaultPaths : disk[f] = before[f]
        /\ EnsureLoop(DefaultNames, disk, 0).disk = disk

\* The call found an edited Game.json and no VFX.json: it kept the first and
\* made the second.
C19_Witness ==
    /\ last_op = "ensure"
    /\ before["Game.json"] = EditedGame /\ disk["Game.json"] = EditedGame
    /\ ~before["VFX.json"].exists
    /\ disk["VFX.json"] = Stored(to_json_dict(default_profiles["VFX"]))

\* --------------------------------------------------------------------- C20
\* C20: execute_pack never raises: for every value of its arguments, the
\* hash_algo selector included, it ends by returning, and every item it gave up
\* on (missing source, hashing or copy failure, hash mismatch) has left an ERROR
\* finding with one of the stable codes.
C20_NeverRaises ==
    /\ pc # "Raised"
    /\ \A i \in 1..Len(plan) :
           st[i] \in FailStates =>
               \E k \in ErrorsOf(i) : issues[k].code \in CodesOfState(st[i])

\* --------------------------------------------------------------------- C22
\* The terminal states the item state machine is given.
StatedTerminal == {"Missing", "HashFailed", "DirError", "Skipped", "CopyFailed",
                   "Verified", "VerifyFailed"}

\* The terminal states of a run: without verify_hash nothing is hashed, and a
\* copied item stays Copied.
TerminalOf(verify) ==
    IF verify THEN StatedTerminal
    ELSE {"Missing", "DirError", "Skipped", "CopyFailed", "Copied"}

\* The moves of one item.  Under verify_hash the source is hashed first and a
\* copy is followed by the verification; without it both steps are left out.
Edges(verify) ==
    (IF verify
     THEN {<<"Pending", "Missing">>, <<"Pending", "Hashing">>,
           <<"Hashing", "HashFailed">>, <<"Hashing", "DirError">>,
           <<"Hashing", "Skipped">>, <<"Hashing", "Copying">>,
           <<"Copied", "VerifyFailed">>, <<"Copied", "Verified">>}
     ELSE {<<"Pending", "Missing">>, <<"Pending", "DirError">>,
           <<"Pending", "Skipped">>, <<"Pending", "Copying">>})
    \cup {<<"Copying", "CopyFailed">>, <<"Copying", "Copied">>}

\* the items the loop is done with
Processed == {i \in DOMAIN st : i < idx}

\* C22 as stated: every processed item is in one of Missing, HashFailed,
\* DirError, Skipped, CopyFailed, Verified, VerifyFailed, whatever overwrite and
\* verify_hash are.
C22_Original == \A i \in Processed : st[i] \in StatedTerminal

C22_Inv == \A i \in Processed : st[i] \in TerminalOf(verify_hash)

C22_Step ==
    [][\A i \in DOMAIN st :
          st'[i] # st[i] => <<st[i], st'[i]>> \in Edges(verify_hash)]_vars

\* C22 (amended): every processed item is in exactly one terminal state and got
\* there along Pending -> Missing | Hashing -> HashFailed | DirError | Skipped |
\* Copying -> CopyFailed | Copied -> VerifyFailed | Verified when verify_hash is
\* on; when it is off, Hashing and the verification are left out and a copied
\* item ends in Copied.  A terminal state is never left.
C22_Amended == []C22_Inv /\ C22_Step

\* A run without verify_hash has returned with an item that ends in Copied.
C22_Witness == Returned /\ ~verify_hash /\ \E i \in Processed : st[i] = "Copied"

\* --------------------------------------------------------------------- C27
NonErrors == DOMAIN issues \ AllErrors

\* C27: in every result of execute_pack failed is the number of ERROR findings,
\* every other finding is a DST_EXISTS_SKIPPED or a PACK_CANCELLED WARNING, and
\* skipped is at least the number of DST_EXISTS_SKIPPED findings.  The same
\* holds of the counters and the findings after every step of the run.
C27_Counts ==
    /\ summary.failed = Cardinality(AllErrors)
    /\ \A k \in NonErrors :
           /\ issues[k].level = "WARNING"
           /\ issues[k].code \in {"DST_EXISTS_SKIPPED", "PACK_CANCELLED"}
    /\ summary.skipped >= Cardinality(WithCode("DST_EXISTS_SKIPPED"))

\* A result with one failure and one skip that was not reported, the
\* destination looking like the source.
C27_Witness ==
    /\ Returned
    /\ summary.failed = 1 /\ summary.skipped = 1
    /\ WithCode("DST_EXISTS_SKIPPED") = {}

\* --------------------------------------------------------------------- C28
\* C28: in every result of execute_pack total is len(plan), cancelled or not,
\* and copied + skipped + failed less the number of HASH_DST_FAILED and
\* HASH_MISMATCH findings is the number of items the loop went through: those
\* reported to the progress callback, all of them finished.
C28_Totals ==
    Returned =>
        /\ summary.total = Len(plan)
        /\ summary.copied + summary.skipped + summary.failed - Cardinality(VerifyFailures)
               = Len(progress)
        /\ Len(progress) = idx - 1
        /\ \A i \in 1..(idx - 1) : st[i] \in Terminal

\* A run cancelled after its first item, which was copied and failed the
\* verification: one item processed, counters summing to two.
C28_Witness ==
    /\ Returned /\ CancelledRun
    /\ Len(plan) = 2 /\ Len(progress) = 1
    /\ summary.copied = 1 /\ summary.failed = 1 /\ summary.total = 2

\* --------------------------------------------------------------------- C29
\* the items that wrote to destination d
WritersOf(d) == {i \in wrote : plan[i].dst = d}

\* the later items with destination d, once item i has written it
LaterOn(i, d) == {j \in Processed : j > i /\ plan[j].dst = d}

C29_StatedInv ==
    ~overwrite =>
        \A d \in Dsts :
            /\ Cardinality(WritersOf(d)) <= 1
            /\ \A i \in WritersOf(d) : \A j \in LaterOn(i, d) : st[j] = "Skipped"

C29_Step ==
    [][~overwrite => \A p \in Paths : exists(fs[p]) => fs'[p] = fs[p]]_vars

\* C29 as stated: with overwrite off no existing file is ever changed, a
\* destination is written at most once, and every later item with the same
\* destination is skipped.
C29_Original == []C29_StatedInv /\ C29_Step

C29_Inv ==
    ~overwrite =>
        \A d \in Dsts :
            /\ Cardinality(WritersOf(d)) <= 1
            /\ \A i \in WritersOf(d) : \A j \in LaterOn(i, d) :
                   /\ j \notin wrote
                   /\ st[j] \in {"Skipped", "Missing", "HashFailed"}
                   /\ st[j] = "Missing" <=> ~exists(fs[plan[j].src])
                   /\ st[j] = "HashFailed" <=> fault[j] = "hash_src"

\* C29 (amended): with overwrite off execute_pack never changes a file that
\* exists, so none that was there before the run, and writes a destination at
\* most once: of the items that share a destination the first to write it wins,
\* and no later one writes; a later one is skipped, unless its source is
\* missing or cannot be hashed, and then it is failed.
C29_Amended == []C29_Inv /\ C29_Step

\* Two items with the same, at first missing, destination: the first wrote it,
\* the second was skipped.
C29_Witness ==
    /\ Returned /\ ~overwrite
    /\ Len(plan) = 2 /\ plan[1].dst = plan[2].dst /\ plan[1].src # plan[2].src
    /\ wrote = {1} /\ st[2] = "Skipped"

\* --------------------------------------------------------------------- C23
RECURSIVE Tokens(_, _)
\* The pieces of name between the delimiters '_', '-' and '.', cur being the
\* piece under way.
Tokens(name, cur) ==
    IF name = "" THEN {cur}
    ELSE IF SubSeq(name, 1, 1) \in {"_", "-", "."}
         THEN {cur} \cup Tokens(SubSeq(name, 2, Len(name)), "")
         ELSE Tokens(SubSeq(name, 2, Len(name)), cur \o SubSeq(name, 1, 1))

\* name has a piece that is 'v' or 'V' and 3 to 4 digits
HasVersionToken(name) ==
    \E t \in Tokens(name, "") :
        /\ Len(t) - 1 \in TokenMinDigits..TokenMaxDigits
        /\ SubSeq(t, 1, 1) \in {"v", "V"}
        /\ \A i \in 2..Len(t) : IsDigit(SubSeq(t, i, i))

\* C23: with warn_missing_version_token on, validate emits one
\* VERSION_TOKEN_MISSING WARNING for every file whose extension is not one of
\* md, txt, pdf, csv, log and whose name has no token 'v' + 3 to 4 digits between
\* delimiters ('_', '-', '.') or the ends of the name, and none for any other
\* file.
C23_VersionToken ==
    Validated /\ profile.rules.warn_missing_version_token =>
        /\ \A i \in DOMAIN v_files :
               LET f == v_files[i]
               IN  CountOf("VERSION_TOKEN_MISSING", f.relpath)
                       = (IF f.ext \notin {"md", "txt", "pdf", "csv", "log"}
                             /\ ~HasVersionToken(f.name)
                          THEN 1 ELSE 0)
        /\ \A k \in WithVCode("VERSION_TOKEN_MISSING") : Findings[k].level = "WARNING"

\* rev001.fbx, whose 'v001' has no delimiter before it, is reported; A_v001.fbx
\* is not.
C23_Witness ==
    /\ Validated /\ profile.rules.warn_missing_version_token
    /\ v_files = <<ScanFile("geo/rev001.fbx"), ScanFile("geo/A_v001.fbx")>>
    /\ CountOf("VERSION_TOKEN_MISSING", "geo/rev001.fbx") = 1
    /\ CountOf("VERSION_TOKEN_MISSING", "geo/A_v001.fbx") = 0

\* --------------------------------------------------------------------- C24
\* the places in the scan of the files whose lower-cased name is key
Occurrences(key) == {i \in DOMAIN v_files : lower(v_files[i].name) = key}

LowerNames == {lower(v_files[i].name) : i \in DOMAIN v_files}

\* C24: validate emits one DUPLICATE_FILENAME WARNING for every lower-cased
\* base name that two or more files of the scan have, wherever they lie; it
\* carries the number of occurrences and the relative path of the first of
\* them in scan order.  A name that occurs once is not reported.
C24_Duplicates ==
    Validated =>
        /\ \A key \in LowerNames :
               LET n == Cardinality(Occurrences(key))
                   mine == {k \in WithVCode("DUPLICATE_FILENAME") :
                               Findings[k].message = Bucket(key, n)}
                   first == CHOOSE i \in Occurrences(key) : \A j \in Occurrences(key) : i <= j
               IN  IF n >= 2
                   THEN /\ Cardinality(mine) = 1
                        /\ \A k \in mine : /\ Findings[k].level = "WARNING"
                                           /\ Findings[k].relpath = v_files[first].relpath
                   ELSE mine = {}
        /\ Cardinality(WithVCode("DUPLICATE_FILENAME"))
               = Cardinality({key \in LowerNames : Cardinality(Occurrences(key)) >= 2})

\* Two files in different folders whose names differ in case only: one
\* finding, at the first of them.
C24_Witness ==
    /\ Validated
    /\ v_files = <<ScanFile("export/a_V001.FBX"), ScanFile("geo/A_v001.fbx")>>
    /\ \E k \in WithVCode("DUPLICATE_FILENAME") :
           /\ Findings[k].relpath = "export/a_V001.FBX"
           /\ Findings[k].message = Bucket("a_v001.fbx", 2)
    /\ Cardinality(WithVCode("DUPLICATE_FILENAME")) = 1

\* --------------------------------------------------------------------- C30
\* c is a slash or white space
SlashOrSpace(c) == c \in {"/", "\\", " ", "\t", "\n"}

\* The profiles the claim speaks of: a non-empty name, required folders that
\* are not blank and have neither slashes nor white space around them, allowed
\* extensions in lower case and without dots.
Normalised(p) ==
    /\ p.name # ""
    /\ \A i \in DOMAIN p.required_folders :
           LET r == p.required_folders[i]
           IN  /\ \E k \in 1..Len(r) : SubSeq(r, k, k) \notin {" ", "\t", "\n"}
               /\ ~SlashOrSpace(SubSeq(r, 1, 1))
               /\ ~SlashOrSpace(SubSeq(r, Len(r), Len(r)))
    /\ \A e \in p.allowed_extensions :
           /\ lower(e) = e
           /\ \A k \in 1..Len(e) : SubSeq(e, k, k) # "."

\* no allowed extension is empty or white space only
ExtensionsNotBlank(p) ==
    \A e \in p.allowed_extensions :
        \E k \in 1..Len(e) : SubSeq(e, k, k) \notin {" ", "\t", "\n"}

\* load_profile was called for the name of the profile p that save_profile
\* stored, with no other call in between
LoadedAfterSaving(p) ==
    /\ last_op = "load" /\ saved = <<p>>
    /\ loaded[1].name = p.name

\* save_profile left the extensions of p in ascending order in the file
StoredSorted(p) ==
    LET list == disk[profile_path(p.name)].text[1].allowed_extensions
    IN  /\ {list[i] : i \in DOMAIN list} = p.allowed_extensions
        /\ \A i \in 1..(Len(list) - 1) : StrLess(list[i], list[i + 1])

\* C30 as stated: every profile with a non-empty name, clean required folders
\* and lower-case dot-less extensions comes back from load_profile equal to
\* what save_profile was given, and its stored extension list is sorted.
C30_Original ==
    \A p \in Edited \cup Given :
        Normalised(p) =>
            /\ last_op = "save" /\ saved = <<p>> => StoredSorted(p)
            /\ LoadedAfterSaving(p) => ~loaded[1].raised /\ loaded[1].value = <<p>>

\* C30: every profile with a non-empty name, clean required folders and
\* lower-case dot-less extensions none of which is blank comes back from
\* load_profile equal to what save_profile was given (name, order of the
\* required folders, set of extensions, the four rules), and its stored
\* extension list is sorted.
C30_RoundTrip ==
    \A p \in Edited \cup Given :
        Normalised(p) /\ ExtensionsNotBlank(p) =>
            /\ last_op = "save" /\ saved = <<p>> => StoredSorted(p)
            /\ LoadedAfterSaving(p) => ~loaded[1].raised /\ loaded[1].value = <<p>>

\* A profile under a name with a character the file name drops is loaded back
\* after being saved.
C30_Witness ==
    \E p \in Edited :
        /\ p.name = "VFX!" /\ Normalised(p) /\ ExtensionsNotBlank(p)
        /\ LoadedAfterSaving(p)
        /\ loaded[1].value = <<p>>

\* --------------------------------------------------------------------- C21
\* the findings hold an ERROR (identity or destination collision)
AnyError(found) == \E k \in DOMAIN found : found[k].level = "ERROR"

\* C21: whatever Scan, Preview and Package clicks are made, a plan is stored
\* only if it is the plan of the latest build_pack_plan call and that call
\* reported no ERROR, and a worker runs execute_pack only on such a plan; after
\* a Preview that an ERROR blocked no plan is stored.
C21_OnlyCleanPlans ==
    /\ last_plan # <<>> =>
           built.done /\ last_plan = built.plan /\ ~AnyError(built.issues)
    /\ running > 0 =>
           /\ worker_plan # <<>>
           /\ built.done /\ worker_plan = built.plan /\ ~AnyError(built.issues)
           /\ Len(plan) = Len(worker_plan)
    /\ built.done /\ AnyError(built.issues) => last_plan = <<>>

\* After one other click, a Package click has started a worker on a plan of
\* two items, which is still running.
C21_Witness ==
    /\ running = 1 /\ Len(worker_plan) = 2 /\ clicks = 2
    /\ ~AnyError(built.issues)
    /\ pc # "Done"

\* --------------------------------------------------------------------- C26
\* C26: at most one pack worker exists at a time, and from its start until
\* its finished signal has been handled Scan, Preview, Package and Export are
\* disabled.
C26_OneWorker ==
    /\ running <= 1
    /\ running > 0 => ~btn.scan /\ ~btn.preview /\ ~btn.package /\ ~btn.export
    /\ Len(signals) <= running
    /\ running = 0 => pc = "Done"

\* A worker is in the middle of a copy, another click is still possible, and
\* the four buttons are disabled.
C26_Witness ==
    /\ running = 1 /\ pc = "Copying" /\ clicks < MaxClicks
    /\ btn = Buttons(FALSE, FALSE, FALSE, FALSE, TRUE)

\* --------------------------------------------------------------------- C25
\* The flag of the running worker was set while an item that had not been
\* started remained.
CancelledEarly == cancel_at.set /\ cancel_at.remain

PackCancelled == {k \in DOMAIN issues : issues[k].code = "PACK_CANCELLED"}

\* No item is started after the flag is set; execute_pack stops at the next
\* item boundary with one PACK_CANCELLED WARNING for the item it did not
\* start; finished is emitted at most once, with the counters as they stood
\* at the boundary.
C25_Safe ==
    CancelledEarly =>
        /\ Len(progress) = cancel_at.started
        /\ idx <= cancel_at.boundary
        /\ pc = "Done" =>
               /\ idx = cancel_at.boundary
               /\ PackCancelled = {Len(issues)}
               /\ issues[Len(issues)].level = "WARNING"
               /\ issues[Len(issues)].relpath = plan[idx].relpath
               /\ \A i \in 1..Len(plan) : st[i] = "Pending" <=> i >= idx
        /\ emitted <= 1
        /\ \A k \in DOMAIN signals :
               /\ signals[k].summary = [total |-> Len(plan), copied |-> copied,
                                         skipped |-> skipped, failed |-> failed]
               /\ signals[k].summary.copied + signals[k].summary.skipped
                      <= cancel_at.boundary - 1
               /\ signals[k].summary.failed <= cancel_at.boundary - 1
               /\ signals[k].issues = issues

\* The finished signal of the cancelled worker has been emitted once and
\* handled: Scan, Preview, Package and Export enabled, Cancel disabled.
Released ==
    /\ running = 0 /\ emitted = 1
    /\ btn = Buttons(TRUE, TRUE, TRUE, TRUE, FALSE)

\* C25: once the flag of a running worker is set while items remain, the
\* worker starts no further item, reports PACK_CANCELLED at the next item
\* boundary, and in the end its finished signal is emitted once with the
\* partial summary and handled, which enables Scan, Preview, Package and
\* Export and disables Cancel.
C25_Cooperative ==
    /\ []C25_Safe
    /\ (CancelledEarly /\ running > 0) ~> (CancelledEarly /\ Released)

\* Cancel was clicked while the first of two items was being copied; the
\* second was never started and the buttons are back.
C25_Witness ==
    /\ CancelledEarly /\ Released
    /\ cancel_at.boundary = 2 /\ cancel_at.started = 1
    /\ Len(progress) = 1 /\ st[2] = "Pending"
    /\ copied = 1

====
